---- MODULE Spec2Model ----
(***************************************************************************)
(* Battleship engine: board data model, shot resolution, ship placement    *)
(* and ship catalog, modelled from src/data and src/logic.                 *)
(*                                                                         *)
(* Grid cells hold the characters of the source: "w" water, "o" miss,      *)
(* "x" hit, "s" sunk, and a ship symbol "A".."Z".  boardArray is indexed   *)
(* <<row, col>>, as boardArray[y][x] in the source.                        *)
(***************************************************************************)
EXTENDS Integers, Sequences, FiniteSets, TLC

(***************************************************************************)
(* Bounds of the model.                                                    *)
(***************************************************************************)
\* side of the bounded board of Spec (the program uses 10..26)
BoardSize == 2
\* number of receiveShot calls explored on one board
MaxShots == 3
\* the retry limit of generateBoardPlacement (1000 in the source), scaled
\* down so that the restart branch is reached
MAX_ATTEMPTS == 2

\* largest number of shots per turn offered to selectShotsPerTurn
MaxSalvoSize == 2

\* number of volleys (of either side) after which a game is not followed
\* any further
MaxSalvos == 4

\* numbers of pickAttackCoordinates and of recordShotResult calls made on
\* an AILogic object on its own
MaxPicks == 5
MaxRecords == 3

(***************************************************************************)
(* Ship catalog (src/data/ship_data.hpp).                                  *)
(***************************************************************************)
MIN_BOARD_SIZE == 10
MAX_BOARD_SIZE == 26

Cfg(n, f4, f3, f2, f1, s) ==
    [boardSize |-> n, fourDeck |-> f4, threeDeck |-> f3, twoDeck |-> f2,
     oneDeck |-> f1, shotsPerTurn |-> s]

configs ==
    << Cfg(10, 1, 2, 3, 4, 5),  Cfg(11, 1, 2, 4, 5, 5),
       Cfg(12, 1, 3, 4, 6, 5),  Cfg(13, 1, 3, 5, 6, 5),
       Cfg(14, 2, 3, 5, 7, 6),  Cfg(15, 2, 4, 6, 8, 6),
       Cfg(16, 2, 4, 6, 9, 6),  Cfg(17, 2, 4, 7, 9, 6),
       Cfg(18, 2, 5, 7, 10, 7), Cfg(19, 3, 5, 8, 11, 7),
       Cfg(20, 3, 5, 8, 12, 7), Cfg(21, 3, 6, 9, 13, 7),
       Cfg(22, 3, 6, 9, 14, 7), Cfg(23, 4, 6, 10, 15, 8),
       Cfg(24, 4, 7, 10, 16, 8), Cfg(25, 4, 7, 11, 17, 8),
       Cfg(26, 4, 7, 11, 18, 9) >>

\* getShipConfig answering with its default for every size
getShipConfig_default(boardSize) == Cfg(10, 1, 2, 3, 4, 5)

getShipConfig(boardSize) ==
    IF \E k \in 1..Len(configs) : configs[k].boardSize = boardSize
    THEN configs[CHOOSE k \in 1..Len(configs) : configs[k].boardSize = boardSize]
    ELSE Cfg(10, 1, 2, 3, 4, 5)

TotalShipsOf(cfg) == cfg.fourDeck + cfg.threeDeck + cfg.twoDeck + cfg.oneDeck

TotalShipCellsOf(cfg) ==
    cfg.fourDeck * 4 + cfg.threeDeck * 3 + cfg.twoDeck * 2 + cfg.oneDeck * 1

getTotalShips(boardSize) == TotalShipsOf(getShipConfig(boardSize))

getTotalShipCells(boardSize) == TotalShipCellsOf(getShipConfig(boardSize))

\* The fleet of the bounded board: the catalog has no entry below 10x10 and
\* its default fleet (20 cells) does not fit, so the fleet is scaled with
\* the board: one 2-deck and one 1-deck ship, two shots per turn.
ScaledConfig == Cfg(BoardSize, 0, 0, 1, 1, 2)

\* getShipConfig(board.boardSize) as called by initializeGamePieces and
\* runGameLoop, with the scaled fleet for boards below the catalog
FleetConfig(size) ==
    IF size < MIN_BOARD_SIZE THEN ScaledConfig ELSE getShipConfig(size)

(***************************************************************************)
(* Ships and boards (src/data/board_data.hpp, board_data.cpp).             *)
(***************************************************************************)
Alphabet ==
    << "A", "B", "C", "D", "E", "F", "G", "H", "I", "J", "K", "L", "M",
       "N", "O", "P", "Q", "R", "S", "T", "U", "V", "W", "X", "Y", "Z" >>

Letters == { Alphabet[i] : i \in 1..Len(Alphabet) }

\* char symbol = 'A' + (shipCounter % 26)
SymbolOf(shipCounter) == Alphabet[(shipCounter % Len(Alphabet)) + 1]

ActiveShip(id, symbol, length, hitCount, isSunk, startRow, startCol, orientation) ==
    [id |-> id, symbol |-> symbol, length |-> length, hitCount |-> hitCount,
     isSunk |-> isSunk, startRow |-> startRow, startCol |-> startCol,
     orientation |-> orientation]

Cells(size) == (0..(size - 1)) \X (0..(size - 1))

InGrid(size, r, c) == r >= 0 /\ r < size /\ c >= 0 /\ c < size

\* an empty std::map
EmptyMap == [s \in {} |-> 0]

\* BoardData(int size): water everywhere, no ships
NewBoard(size) ==
    [boardSize |-> size,
     boardArray |-> [rc \in Cells(size) |-> "w"],
     myShips |-> << >>,
     shipStatus |-> EmptyMap,
     missCount |-> 0]

\* BoardData::initialize
initialize(b, size) == NewBoard(size)

\* clear leaving the grid as it is
clear_keepGrid(b) ==
    [b EXCEPT !.myShips = << >>,
              !.shipStatus = EmptyMap,
              !.missCount = 0]

\* BoardData::clear
clear(b) ==
    [b EXCEPT !.boardArray = [rc \in Cells(b.boardSize) |-> "w"],
              !.myShips = << >>,
              !.shipStatus = EmptyMap,
              !.missCount = 0]

\* ShipCells reaching one cell past the end of the ship
ShipCells_oneMore(ship) ==
    { IF ship.orientation = 1
      THEN <<ship.startRow + i, ship.startCol>>
      ELSE <<ship.startRow, ship.startCol - i>> : i \in 0..ship.length }

\* the cells a registered ship occupies: down from the origin when vertical
\* (orientation 1), left from the origin otherwise
ShipCells(ship) ==
    { IF ship.orientation = 1
      THEN <<ship.startRow + i, ship.startCol>>
      ELSE <<ship.startRow, ship.startCol - i>> : i \in 0..(ship.length - 1) }

\* isHit with the origin cell of a horizontal ship left out
isHit_noOrigin(ship, x, y) ==
    IF ship.length = 1
    THEN x = ship.startCol /\ y = ship.startRow
    ELSE IF ship.orientation = 1
         THEN x = ship.startCol /\ y >= ship.startRow
              /\ y < ship.startRow + ship.length
         ELSE y = ship.startRow /\ x < ship.startCol
              /\ x > ship.startCol - ship.length

\* the membership test of receiveShot
isHit(ship, x, y) ==
    IF ship.length = 1
    THEN x = ship.startCol /\ y = ship.startRow
    ELSE IF ship.orientation = 1
         THEN x = ship.startCol /\ y >= ship.startRow
              /\ y < ship.startRow + ship.length
         ELSE y = ship.startRow /\ x <= ship.startCol
              /\ x > ship.startCol - ship.length

\* std::map operator[] followed by an assignment of some fields
StatusPut(status, symbol, rec) ==
    [s \in (DOMAIN status) \cup {symbol} |-> IF s = symbol THEN rec ELSE status[s]]

\* indices of the ships the loop of receiveShot would act on
HitCandidates(b, x, y, targetSymbol) ==
    { k \in 1..Len(b.myShips) :
        /\ ~b.myShips[k].isSunk
        /\ b.myShips[k].symbol = targetSymbol
        /\ isHit(b.myShips[k], x, y) }

Min(S) == CHOOSE m \in S : \A n \in S : m <= n

\* AlreadyShot without the hit marker
AlreadyShot_noHit(cell) == cell = "o" \/ cell = "s"

\* "Already hit - no action needed"
AlreadyShot(cell) == cell = "x" \/ cell = "o" \/ cell = "s"

\* reachedLength with a strict comparison
reachedLength_strict(hitCount, length) == hitCount > length

\* "Check if ship is completely sunk"
reachedLength(hitCount, length) == hitCount >= length

\* shotInGrid clearing the hit count of the ship it sinks
shotInGrid_resetCount(b, x, y) ==
    LET cell == b.boardArray[<<y, x>>] IN
    IF AlreadyShot(cell)
    THEN [board |-> b, ret |-> 0]
    ELSE IF cell = "w"
    THEN [board |-> [b EXCEPT !.boardArray[<<y, x>>] = "o",
                              !.missCount = @ + 1],
          ret |-> 0]
    ELSE IF cell \in Letters /\ HitCandidates(b, x, y, cell) # {}
    THEN
      LET k == Min(HitCandidates(b, x, y, cell))
          ship == b.myShips[k]
          hc == ship.hitCount + 1
          old == IF ship.symbol \in DOMAIN b.shipStatus
                 THEN b.shipStatus[ship.symbol]
                 ELSE ActiveShip(0, ship.symbol, 0, 0, FALSE, 0, 0, 0)
      IN
      IF reachedLength(hc, ship.length)
      THEN [board |->
              [b EXCEPT
                 !.myShips[k] = [ship EXCEPT !.hitCount = 0, !.isSunk = TRUE],
                 !.shipStatus = StatusPut(b.shipStatus, ship.symbol,
                                   [old EXCEPT !.isSunk = TRUE, !.hitCount = hc]),
                 !.boardArray = [rc \in Cells(b.boardSize) |->
                                   IF rc \in ShipCells(ship) THEN "s"
                                   ELSE b.boardArray[rc]]],
            ret |-> 2]
      ELSE [board |->
              [b EXCEPT
                 !.myShips[k] = [ship EXCEPT !.hitCount = hc],
                 !.shipStatus = StatusPut(b.shipStatus, ship.symbol,
                                   [old EXCEPT !.hitCount = hc]),
                 !.boardArray[<<y, x>>] = "x"],
            ret |-> 1]
    ELSE [board |-> [b EXCEPT !.boardArray[<<y, x>>] = "x"], ret |-> 1]

\* BoardData::receiveShot past its bounds check
shotInGrid(b, x, y) ==
    LET cell == b.boardArray[<<y, x>>] IN
    IF AlreadyShot(cell)
    THEN [board |-> b, ret |-> 0]
    ELSE IF cell = "w"
    THEN [board |-> [b EXCEPT !.boardArray[<<y, x>>] = "o",
                              !.missCount = @ + 1],
          ret |-> 0]
    ELSE IF cell \in Letters /\ HitCandidates(b, x, y, cell) # {}
    THEN
      LET k == Min(HitCandidates(b, x, y, cell))
          ship == b.myShips[k]
          hc == ship.hitCount + 1
          old == IF ship.symbol \in DOMAIN b.shipStatus
                 THEN b.shipStatus[ship.symbol]
                 ELSE ActiveShip(0, ship.symbol, 0, 0, FALSE, 0, 0, 0)
      IN
      IF reachedLength(hc, ship.length)
      THEN [board |->
              [b EXCEPT
                 !.myShips[k] = [ship EXCEPT !.hitCount = hc, !.isSunk = TRUE],
                 !.shipStatus = StatusPut(b.shipStatus, ship.symbol,
                                   [old EXCEPT !.isSunk = TRUE, !.hitCount = hc]),
                 !.boardArray = [rc \in Cells(b.boardSize) |->
                                   IF rc \in ShipCells(ship) THEN "s"
                                   ELSE b.boardArray[rc]]],
            ret |-> 2]
      ELSE [board |->
              [b EXCEPT
                 !.myShips[k] = [ship EXCEPT !.hitCount = hc],
                 !.shipStatus = StatusPut(b.shipStatus, ship.symbol,
                                   [old EXCEPT !.hitCount = hc]),
                 !.boardArray[<<y, x>>] = "x"],
            ret |-> 1]
    ELSE [board |-> [b EXCEPT !.boardArray[<<y, x>>] = "x"], ret |-> 1]

\* receiveShot reporting a hit for a shot outside the grid
receiveShot_oobHit(b, x, y) ==
    IF x < 0 \/ x >= b.boardSize \/ y < 0 \/ y >= b.boardSize
    THEN [board |-> b, ret |-> 1]
    ELSE shotInGrid(b, x, y)

\* BoardData::receiveShot: 0 = miss, 1 = hit, 2 = sunk
receiveShot(b, x, y) ==
    IF x < 0 \/ x >= b.boardSize \/ y < 0 \/ y >= b.boardSize
    THEN [board |-> b, ret |-> 0]
    ELSE shotInGrid(b, x, y)

\* BoardData::getRemainingShips: counts the entries of shipStatus
getRemainingShips(b) ==
    Cardinality({ s \in DOMAIN b.shipStatus : ~b.shipStatus[s].isSunk })

RECURSIVE SumSeq(_, _)
SumSeq(f, n) == IF n = 0 THEN 0 ELSE f[n] + SumSeq(f, n - 1)

\* getWoundedCount adding the hits of the sunk ships too
getWoundedCount_withSunk(b) ==
    SumSeq([k \in 1..Len(b.myShips) |-> b.myShips[k].hitCount],
           Len(b.myShips))

\* BoardData::getWoundedCount
getWoundedCount(b) ==
    SumSeq([k \in 1..Len(b.myShips) |->
              IF ~b.myShips[k].isSunk /\ b.myShips[k].hitCount > 0
              THEN b.myShips[k].hitCount ELSE 0],
           Len(b.myShips))

\* BoardData::getSunkCount
getSunkCount(b) ==
    Cardinality({ k \in 1..Len(b.myShips) : b.myShips[k].isSunk })

\* BoardData::addShip: the caller has checked the cells
addShip(b, orientation, startPos, length, symbol) ==
    LET row == startPos \div b.boardSize
        col == startPos % b.boardSize
        newShip == ActiveShip(Len(b.myShips), symbol, length, 0, FALSE,
                              row, col, orientation)
        cells == { IF orientation = 1 THEN <<row + j, col>>
                   ELSE <<row, col - j>> : j \in 0..(length - 1) }
    IN [b EXCEPT
          !.myShips = Append(b.myShips, newShip),
          !.shipStatus = StatusPut(b.shipStatus, symbol, newShip),
          !.boardArray = [rc \in Cells(b.boardSize) |->
                            IF rc \in cells THEN symbol ELSE b.boardArray[rc]]]

(***************************************************************************)
(* Placement (src/logic/game_logic.cpp).                                   *)
(***************************************************************************)
\* length of the k-th piece created (k from 0): 4-deck ships first
PieceLength(cfg, k) ==
    IF k < cfg.fourDeck THEN 4
    ELSE IF k < cfg.fourDeck + cfg.threeDeck THEN 3
    ELSE IF k < cfg.fourDeck + cfg.threeDeck + cfg.twoDeck THEN 2
    ELSE 1

Max(S) == CHOOSE m \in S : \A n \in S : m >= n

\* GameLogic::initializeGamePieces: the pieces, and a shipStatus entry per
\* symbol (a later piece with the same symbol overwrites the earlier one)
initializeGamePieces(b) ==
    LET cfg == FleetConfig(b.boardSize)
        total == TotalShipsOf(cfg)
        lastOf(s) == Max({ k \in 0..(total - 1) : SymbolOf(k) = s })
    IN [pieces |-> [k \in 1..total |->
                      [length |-> PieceLength(cfg, k - 1),
                       symbol |-> SymbolOf(k - 1)]],
        board |-> [b EXCEPT
                     !.myShips = << >>,
                     !.shipStatus =
                        [s \in { SymbolOf(k) : k \in 0..(total - 1) } |->
                           ActiveShip(lastOf(s), s, PieceLength(cfg, lastOf(s)),
                                      0, FALSE, -1, -1, 0)]]]

\* PegCell without the collision test
PegCell_noCollision(b, orientation, starting_peg, j) ==
    LET row == starting_peg \div b.boardSize
        col == starting_peg % b.boardSize
    IN IF orientation = 1
       THEN IF row + j >= b.boardSize THEN 2 ELSE 0
       ELSE IF col - j < 0 THEN 2 ELSE 0

\* result of checkStartingPeg for cell j of the piece, 0 when the cell is fine
PegCell(b, orientation, starting_peg, j) ==
    LET row == starting_peg \div b.boardSize
        col == starting_peg % b.boardSize
    IN IF orientation = 1
       THEN IF row + j >= b.boardSize THEN 2
            ELSE IF b.boardArray[<<row + j, col>>] # "w" THEN 3 ELSE 0
       ELSE IF col - j < 0 THEN 2
            ELSE IF b.boardArray[<<row, col - j>>] # "w" THEN 3 ELSE 0

\* GameLogic::checkStartingPeg: 1 = valid, 2 = out of bounds, 3 = collision
checkStartingPeg(b, orientation, starting_peg, piece_length) ==
    LET bad == { j \in 0..(piece_length - 1) :
                   PegCell(b, orientation, starting_peg, j) # 0 }
    IN IF bad = {} THEN 1
       ELSE PegCell(b, orientation, starting_peg, Min(bad))

\* GameLogic::isValidShipPlacement from cell i on.  The row index of a
\* horizontal ship and the column index of a vertical ship are not checked
\* before boardArray is read: such a read is out of the vector's bounds and
\* may yield water or not, so the result is a set of possible outcomes.
RECURSIVE ValidFrom(_, _, _, _, _, _)
ValidFrom(b, gridX, gridY, orientation, length, i) ==
    IF i >= length THEN {TRUE}
    ELSE IF orientation = 0
    THEN LET checkX == gridX - i IN
         IF checkX < 0 \/ checkX >= b.boardSize THEN {FALSE}
         ELSE IF gridY >= 0 /\ gridY < b.boardSize
         THEN IF b.boardArray[<<gridY, checkX>>] # "w" THEN {FALSE}
              ELSE ValidFrom(b, gridX, gridY, orientation, length, i + 1)
         ELSE {FALSE} \cup ValidFrom(b, gridX, gridY, orientation, length, i + 1)
    ELSE LET checkY == gridY - i IN
         IF checkY < 0 \/ checkY >= b.boardSize THEN {FALSE}
         ELSE IF gridX >= 0 /\ gridX < b.boardSize
         THEN IF b.boardArray[<<checkY, gridX>>] # "w" THEN {FALSE}
              ELSE ValidFrom(b, gridX, gridY, orientation, length, i + 1)
         ELSE {FALSE} \cup ValidFrom(b, gridX, gridY, orientation, length, i + 1)

isValidShipPlacement(b, gridX, gridY, orientation, length) ==
    ValidFrom(b, gridX, gridY, orientation, length, 0)

\* the cells placeShip writes: left from the origin when horizontal
\* (orientation 0), up from the origin otherwise
PlaceCells(gridX, gridY, orientation, length) ==
    { IF orientation = 0 THEN <<gridY, gridX - i>> ELSE <<gridY - i, gridX>> :
        i \in 0..(length - 1) }

\* placeShip writing the cells before it looks at the validation
placeShip_writeFirst(b, gridX, gridY, orientation, length, symbol, valid) ==
    LET cells == PlaceCells(gridX, gridY, orientation, length) IN
    [board |-> [b EXCEPT !.boardArray =
                   [rc \in Cells(b.boardSize) |->
                      IF rc \in cells THEN symbol ELSE b.boardArray[rc]]],
     ret |-> valid,
     ub |-> valid /\ \E rc \in cells : ~InGrid(b.boardSize, rc[1], rc[2])]

\* GameLogic::placeShip, given the outcome of its call of
\* isValidShipPlacement.  Writes that fall outside the grid are outside the
\* vector's storage: they leave the grid as it is and set ub.
placeShip(b, gridX, gridY, orientation, length, symbol, valid) ==
    IF ~valid
    THEN [board |-> b, ret |-> FALSE, ub |-> FALSE]
    ELSE LET cells == PlaceCells(gridX, gridY, orientation, length) IN
         [board |-> [b EXCEPT !.boardArray =
                        [rc \in Cells(b.boardSize) |->
                           IF rc \in cells THEN symbol ELSE b.boardArray[rc]]],
          ret |-> TRUE,
          ub |-> \E rc \in cells : ~InGrid(b.boardSize, rc[1], rc[2])]

(***************************************************************************)
(* State.                                                                  *)
(***************************************************************************)
VARIABLES
    pc,            \* where the board's owner is: "new", "gen" (inside
                   \* generateBoardPlacement), "review" (setupPlayerBoard
                   \* waits for y/n/m), "manual" (placement loop), "play"
    board,         \* the BoardData
    pieces,        \* std::vector<GamePiece> of the placement in progress
    gen_i,         \* index i of the loop of generateBoardPlacement (from 0)
    starting_peg,  \* its candidate peg, -1 before one is drawn
    orientation,   \* its candidate orientation (1 vertical, 2 horizontal)
    attempts,      \* its retry counter (these three are locals of the loop
                   \* body: they are reset when a piece is done)
    shipToPlace,   \* index of the next piece of the manual placement loop
    shotCount,     \* number of receiveShot calls made on the board
    last,          \* the last call made on the board and what it returned
    ub,            \* a write outside the grid's storage has happened
    game,          \* the locals of runGameLoop, status "none" before it runs
    ai,            \* the AILogic object of playAIGame
    calls,         \* the calls made on an AILogic object on its own: how
                   \* many picks, the values they returned, how many
                   \* records, how many of them of a hit
    net,           \* a remote game: the two peers (their boards and the
                   \* locals of their runGameLoop), the bytes in flight on
                   \* the connection, and whether the connection is up
    config         \* the program around the games: the global BOARD_SIZE,
                   \* the screen it shows, the local currentSize of the
                   \* board size menu and the boards of the game played

vars == << pc, board, pieces, gen_i, starting_peg, orientation, attempts,
           shipToPlace, shotCount, last, ub, game, ai, calls, net, config >>

genVars == << gen_i, starting_peg, orientation, attempts >>

NoCall(b) ==
    [op |-> "none", x |-> 0, y |-> 0, o |-> 0, len |-> 0, ret |-> 0,
     ok |-> FALSE, pre |-> b]

Call(op, x, y, o, len, ret, ok, pre) ==
    [op |-> op, x |-> x, y |-> y, o |-> o, len |-> len, ret |-> ret,
     ok |-> ok, pre |-> pre]

\* coordinates offered to the operations: the grid and one step outside it
Coords(size) == (0 - 1)..size

\* AICoordinates {-1, -1}: "no shot"
NoShot == << 0 - 1, 0 - 1 >>

\* the value of game while runGameLoop has not been called
NoGame ==
    [status |-> "none", shots |-> 0, playerHits |-> 0, enemyHits |-> 0,
     playerShipsRemaining |-> 0, enemyShipsRemaining |-> 0,
     playerTurn |-> TRUE, selectingMode |-> TRUE, playerShots |-> << >>,
     i |-> 0, enemyKnownBoard |-> << >>, enemyBoard |-> << >>, salvos |-> 0]

\* no call has been made on the AILogic object
NoCalls == [picks |-> 0, cells |-> {}, records |-> 0, hits |-> 0]

\* the value of net where no remote game is played
NoNet == [peer |-> << >>, chan |-> << >>, up |-> FALSE]

\* the value of config where the menus are not followed: BOARD_SIZE as
\* main() sets it, no board size menu and no game open
NoConfig == [BOARD_SIZE |-> 10, mode |-> "menu", currentSize |-> 0, boards |-> << >>]

\* the value of ai where no AILogic object exists
NoAI ==
    [difficulty |-> "none", aiBoard |-> NewBoard(0), opponentBoard |-> << >>,
     lastHit |-> NoShot, hunting |-> FALSE, availableShots |-> << >>,
     targetQueue |-> << >>, parityShots |-> << >>, boardSize |-> 0]

Init ==
    /\ pc = "new"
    /\ board = NewBoard(BoardSize)
    /\ pieces = << >>
    /\ gen_i = 0
    /\ starting_peg = 0 - 1
    /\ orientation = 1
    /\ attempts = 0
    /\ shipToPlace = 0
    /\ shotCount = 0
    /\ last = NoCall(NewBoard(BoardSize))
    /\ ub = FALSE
    /\ game = NoGame
    /\ ai = NoAI
    /\ calls = NoCalls
    /\ net = NoNet
    /\ config = NoConfig

(***************************************************************************)
(* setupPlayerBoard and generateBoardPlacement.                            *)
(***************************************************************************)
\* setupPlayerBoard up to the call of generateBoardPlacement; also the way
\* back from the manual loop (key G), which calls setupPlayerBoard again
SetupPlayerBoard ==
    /\ ~ub
    /\ pc \in {"new", "manual"}
    /\ LET r == initializeGamePieces(initialize(board, board.boardSize)) IN
         /\ board' = r.board
         /\ pieces' = r.pieces
    /\ pc' = "gen"
    /\ gen_i' = 0
    /\ starting_peg' = 0 - 1
    /\ orientation' = 1
    /\ attempts' = 0
    /\ shipToPlace' = 0
    /\ last' = NoCall(board')
    /\ UNCHANGED << shotCount, ub, game, ai, calls, net, config >>

\* the outcomes of rand() % (boardSize * boardSize) and (rand() % 2) + 1
AllCandidates(b) == (0..(b.boardSize * b.boardSize - 1)) \X {1, 2}

\* head of the for loop: draw the first candidate of piece i among cands
GenDrawIn(cands) ==
    /\ ~ub
    /\ pc = "gen"
    /\ starting_peg < 0
    /\ \E cand \in cands :
         /\ starting_peg' = cand[1]
         /\ orientation' = cand[2]
    /\ attempts' = 0
    /\ UNCHANGED << pc, board, pieces, gen_i, shipToPlace, shotCount, last, ub, game, ai, calls, net, config >>

GenDraw == GenDrawIn(AllCandidates(board))

\* the orientation the while loop ends with when the candidate is accepted:
\* as drawn, or flipped after an out-of-bounds result; 0 when it is rejected
AcceptedOrientation(b, o, peg, len) ==
    LET ret == checkStartingPeg(b, o, peg, len)
        flipped == IF o = 1 THEN 2 ELSE 1
    IN IF ret = 1 THEN o
       ELSE IF ret = 2 /\ checkStartingPeg(b, flipped, peg, len) = 1 THEN flipped
       ELSE 0

\* the candidate passes checkStartingPeg: addShip, next piece
GenPlace ==
    /\ ~ub
    /\ pc = "gen"
    /\ starting_peg >= 0
    /\ LET piece == pieces[gen_i + 1]
           o == AcceptedOrientation(board, orientation, starting_peg, piece.length)
       IN /\ o # 0
          /\ board' = addShip(board, o, starting_peg, piece.length, piece.symbol)
    /\ gen_i' = gen_i + 1
    /\ starting_peg' = 0 - 1
    /\ orientation' = 1
    /\ attempts' = 0
    /\ pc' = IF gen_i + 1 >= Len(pieces) THEN "review" ELSE "gen"
    /\ last' = NoCall(board')
    /\ UNCHANGED << pieces, shipToPlace, shotCount, ub, game, ai, calls, net, config >>

\* the candidate fails: draw another one
GenRetry ==
    /\ ~ub
    /\ pc = "gen"
    /\ starting_peg >= 0
    /\ AcceptedOrientation(board, orientation, starting_peg,
                           pieces[gen_i + 1].length) = 0
    /\ attempts + 1 <= MAX_ATTEMPTS
    /\ \E cand \in AllCandidates(board) :
         /\ starting_peg' = cand[1]
         /\ orientation' = cand[2]
    /\ attempts' = attempts + 1
    /\ UNCHANGED << pc, board, pieces, gen_i, shipToPlace, shotCount, last, ub, game, ai, calls, net, config >>

\* the candidate fails for the last time: clear the board, start over
GenRestart ==
    /\ ~ub
    /\ pc = "gen"
    /\ starting_peg >= 0
    /\ AcceptedOrientation(board, orientation, starting_peg,
                           pieces[gen_i + 1].length) = 0
    /\ attempts + 1 > MAX_ATTEMPTS
    /\ board' = clear(board)
    /\ gen_i' = 0
    /\ starting_peg' = 0 - 1
    /\ orientation' = 1
    /\ attempts' = 0
    /\ last' = NoCall(board')
    /\ UNCHANGED << pc, pieces, shipToPlace, shotCount, ub, game, ai, calls, net, config >>

\* key N of setupPlayerBoard: clear and generate again
Regenerate ==
    /\ ~ub
    /\ pc = "review"
    /\ board' = clear(board)
    /\ pc' = "gen"
    /\ gen_i' = 0
    /\ starting_peg' = 0 - 1
    /\ last' = NoCall(board')
    /\ UNCHANGED << pieces, orientation, attempts, shipToPlace, shotCount, ub, game, ai, calls, net, config >>

\* key Y of setupPlayerBoard: the board goes into the game
AcceptBoard ==
    /\ ~ub
    /\ pc = "review"
    /\ pc' = "play"
    /\ UNCHANGED << board, pieces, genVars, shipToPlace, shotCount, last, ub, game, ai, calls, net, config >>

(***************************************************************************)
(* Manual placement (playAIGame, playMultiplayerHost/Client).              *)
(***************************************************************************)
\* key M of setupPlayerBoard: clear, then initializeGamePieces again
SwitchToManual ==
    /\ ~ub
    /\ pc = "review"
    /\ LET r == initializeGamePieces(clear(board)) IN
         /\ board' = r.board
         /\ pieces' = r.pieces
    /\ pc' = "manual"
    /\ shipToPlace' = 0
    /\ last' = NoCall(board')
    /\ UNCHANGED << genVars, shotCount, ub, game, ai, calls, net, config >>

\* a call of isValidShipPlacement
Validate(x, y, o, len) ==
    /\ ~ub
    /\ pc = "manual"
    /\ \E v \in isValidShipPlacement(board, x, y, o, len) :
         last' = Call("validate", x, y, o, len, 0, v, board)
    /\ UNCHANGED << pc, board, pieces, genVars, shipToPlace, shotCount, ub, game, ai, calls, net, config >>

\* placeShip for the current piece; the loop moves on when it returns true
PlaceShip(x, y, o) ==
    /\ ~ub
    /\ pc = "manual"
    /\ shipToPlace < Len(pieces)
    /\ LET piece == pieces[shipToPlace + 1] IN
       \E v \in isValidShipPlacement(board, x, y, o, piece.length) :
         LET r == placeShip(board, x, y, o, piece.length, piece.symbol, v) IN
           /\ board' = r.board
           /\ ub' = r.ub
           /\ shipToPlace' = IF r.ret THEN shipToPlace + 1 ELSE shipToPlace
           /\ pc' = IF r.ret /\ shipToPlace + 1 >= Len(pieces)
                    THEN "play" ELSE "manual"
           /\ last' = Call("place", x, y, o, piece.length, 0, r.ret, board)
    /\ UNCHANGED << pieces, genVars, shotCount, game, ai, calls, net, config >>

(***************************************************************************)
(* Shots.                                                                  *)
(***************************************************************************)
Shoot(x, y) ==
    /\ ~ub
    /\ pc = "play"
    /\ shotCount < MaxShots
    /\ LET r == receiveShot(board, x, y) IN
         /\ board' = r.board
         /\ last' = Call("shot", x, y, 0, 0, r.ret, FALSE, board)
    /\ shotCount' = shotCount + 1
    /\ UNCHANGED << pc, pieces, genVars, shipToPlace, ub, game, ai, calls, net, config >>

Next ==
    \/ SetupPlayerBoard
    \/ GenDraw
    \/ GenPlace
    \/ GenRetry
    \/ GenRestart
    \/ Regenerate
    \/ AcceptBoard
    \/ SwitchToManual
    \/ \E x \in Coords(board.boardSize), y \in Coords(board.boardSize),
          o \in {0, 1}, len \in 1..4 : Validate(x, y, o, len)
    \/ \E x \in Coords(board.boardSize), y \in Coords(board.boardSize),
          o \in {0, 1} : PlaceShip(x, y, o)
    \/ \E x \in Coords(board.boardSize), y \in Coords(board.boardSize) :
          Shoot(x, y)

Spec == Init /\ [][Next]_vars

(***************************************************************************)
(* Properties of shot resolution and placement, checked under Spec.        *)
(***************************************************************************)
LastShot == last.op = "shot"

LastInGrid == InGrid(last.pre.boardSize, last.y, last.x)

\* the ships of b whose geometry covers cell <<r, c>>
Covering(b, r, c) ==
    { k \in 1..Len(b.myShips) : <<r, c>> \in ShipCells(b.myShips[k]) }

\* C1: a shot on an in-bounds occupied cell of a board whose ships were
\* registered by addShip raises the hitCount of exactly the ship covering
\* the cell by one; when the ship's hitCount then equals its length the
\* shot returns Sunk (2) and exactly the cells of that ship become "s",
\* otherwise it returns Hit (1) and exactly the shot cell becomes "x".
C1_ShotOnOccupied ==
    ( /\ LastShot
      /\ LastInGrid
      /\ last.pre.boardArray[<<last.y, last.x>>] \in Letters
      /\ last.pre.myShips # << >> )
    =>
    /\ Cardinality(Covering(last.pre, last.y, last.x)) = 1
    /\ Len(board.myShips) = Len(last.pre.myShips)
    /\ \A k \in 1..Len(last.pre.myShips) :
         LET old == last.pre.myShips[k]
             new == board.myShips[k]
         IN IF k \in Covering(last.pre, last.y, last.x)
            THEN /\ new.hitCount = old.hitCount + 1
                 /\ IF new.hitCount = new.length
                    THEN /\ last.ret = 2
                         /\ \A rc \in Cells(board.boardSize) :
                              board.boardArray[rc] =
                                IF rc \in ShipCells(old) THEN "s"
                                ELSE last.pre.boardArray[rc]
                    ELSE /\ last.ret = 1
                         /\ \A rc \in Cells(board.boardSize) :
                              board.boardArray[rc] =
                                IF rc = <<last.y, last.x>> THEN "x"
                                ELSE last.pre.boardArray[rc]
            ELSE new.hitCount = old.hitCount

\* a shot has just sunk a 2-deck ship whose other cell was hit before
C1_Witness ==
    /\ LastShot
    /\ last.ret = 2
    /\ \E k \in 1..Len(board.myShips) :
         /\ <<last.y, last.x>> \in ShipCells(board.myShips[k])
         /\ board.myShips[k].length = 2
         /\ board.myShips[k].isSunk

\* C2: every ship of the board has 0 <= hitCount <= length, and is sunk
\* exactly when hitCount = length.
C2_HitCountRange ==
    \A k \in 1..Len(board.myShips) :
      LET ship == board.myShips[k] IN
        /\ 0 <= ship.hitCount
        /\ ship.hitCount <= ship.length
        /\ ship.isSunk <=> (ship.hitCount = ship.length)

\* one ship is sunk while another one is hit and afloat
C2_Witness ==
    /\ \E k \in 1..Len(board.myShips) :
         board.myShips[k].isSunk /\ board.myShips[k].hitCount = board.myShips[k].length
    /\ \E k \in 1..Len(board.myShips) :
         ~board.myShips[k].isSunk /\ board.myShips[k].hitCount = 1

\* C3: a shot on a cell that is already Miss, Hit or Sunk returns Miss (0)
\* and changes nothing: grid, ships, ship status and miss counter.
C3_RepeatedShot ==
    ( /\ LastShot
      /\ LastInGrid
      /\ last.pre.boardArray[<<last.y, last.x>>] \in {"o", "x", "s"} )
    => (last.ret = 0 /\ board = last.pre)

\* the cell shot again was a Hit of a registered ship
C3_Witness ==
    /\ LastShot
    /\ LastInGrid
    /\ last.pre.boardArray[<<last.y, last.x>>] = "x"
    /\ \E k \in 1..Len(last.pre.myShips) : last.pre.myShips[k].hitCount = 1

\* C4: a shot with x or y outside [0, size) returns Miss (0) and leaves
\* the grid, the ships and the miss counter unchanged.
C4_ShotOutOfBounds ==
    (LastShot /\ ~LastInGrid) => (last.ret = 0 /\ board = last.pre)

\* a shot at x = size on a board that has ships and an earlier miss
C4_Witness ==
    /\ LastShot
    /\ last.x = board.boardSize
    /\ last.y \in 0..(board.boardSize - 1)
    /\ board.missCount > 0
    /\ board.myShips # << >>

\* the cells a placement would occupy are all inside the grid and water
AllFree(b, gridX, gridY, o, len) ==
    \A rc \in PlaceCells(gridX, gridY, o, len) :
      InGrid(b.boardSize, rc[1], rc[2]) /\ b.boardArray[rc] = "w"

\* C5: no grid cell is covered by two ships: the registered ships lie
\* inside the grid on pairwise disjoint cells, before the first shot the
\* grid holds exactly their cells, and a placeShip that returned true
\* wrote only to cells of the grid that were water.
C5_NoOverlap ==
    /\ \A k \in 1..Len(board.myShips) :
         ShipCells(board.myShips[k]) \subseteq Cells(board.boardSize)
    /\ \A j, k \in 1..Len(board.myShips) :
         j # k => ShipCells(board.myShips[j]) \cap ShipCells(board.myShips[k]) = {}
    /\ (pc \in {"gen", "review"}) =>
         \A rc \in Cells(board.boardSize) :
           IF Covering(board, rc[1], rc[2]) = {}
           THEN board.boardArray[rc] = "w"
           ELSE \A k \in Covering(board, rc[1], rc[2]) :
                  board.boardArray[rc] = board.myShips[k].symbol
    /\ (last.op = "place" /\ last.ok) =>
         \A rc \in Cells(board.boardSize) :
           board.boardArray[rc] # last.pre.boardArray[rc]
             => last.pre.boardArray[rc] = "w"

\* generateBoardPlacement has finished with a fleet of two or more ships,
\* all of them registered
C5_Witness ==
    /\ pc = "review"
    /\ Len(board.myShips) = Len(pieces)
    /\ Len(board.myShips) >= 2

\* C6: a placeShip that returns true registers the new ship in the
\* board's ship list, with the cells it wrote and its symbol.
C6_PlaceRegisters ==
    (last.op = "place" /\ last.ok /\ ~ub) =>
      /\ Len(board.myShips) = Len(last.pre.myShips) + 1
      /\ ShipCells(board.myShips[Len(board.myShips)]) =
           PlaceCells(last.x, last.y, last.o, last.len)

\* C7: a placeShip whose validation fails returns false and leaves the
\* board as it was; for an origin inside the grid the validation fails
\* whenever a cell of the ship is outside the grid or not water.
C7_RejectedPlace ==
    (last.op = "place") =>
      /\ ~last.ok => board = last.pre
      /\ ( /\ InGrid(last.pre.boardSize, last.y, last.x)
           /\ ~AllFree(last.pre, last.x, last.y, last.o, last.len) )
         => ~last.ok

\* a placement overlapping an earlier ship has just been rejected
C7_Witness ==
    /\ last.op = "place"
    /\ ~last.ok
    /\ InGrid(board.boardSize, last.y, last.x)
    /\ \E rc \in PlaceCells(last.x, last.y, last.o, last.len) :
         InGrid(board.boardSize, rc[1], rc[2]) /\ board.boardArray[rc] \in Letters

\* C8: isValidShipPlacement returns true exactly when every cell of the
\* prospective ship is inside the grid and water; in particular an origin
\* outside the grid is rejected.
C8_ValidateExact ==
    (last.op = "validate") =>
      (last.ok <=> AllFree(last.pre, last.x, last.y, last.o, last.len))

(***************************************************************************)
(* The catalog fleets on their own boards (sizes 10 to 26).  The random    *)
(* draws of generateBoardPlacement are restricted to one layout that the   *)
(* code accepts: piece i stands vertically in column i % size, in the      *)
(* band of rows starting at 5 * (i / size).  Shots go to the first ship,   *)
(* the last ship and one water cell.                                       *)
(***************************************************************************)
CanonicalPeg(size, i) == (5 * (i \div size)) * size + (i % size)

InitCatalog ==
    /\ pc = "new"
    /\ \E size \in MIN_BOARD_SIZE..MAX_BOARD_SIZE :
         /\ board = NewBoard(size)
         /\ last = NoCall(NewBoard(size))
    /\ pieces = << >>
    /\ gen_i = 0
    /\ starting_peg = 0 - 1
    /\ orientation = 1
    /\ attempts = 0
    /\ shipToPlace = 0
    /\ shotCount = 0
    /\ ub = FALSE
    /\ game = NoGame
    /\ ai = NoAI
    /\ calls = NoCalls
    /\ net = NoNet
    /\ config = NoConfig

CatDraw == GenDrawIn({ <<CanonicalPeg(board.boardSize, gen_i), 1>> })

CatTargets(b) ==
    IF b.myShips = << >> THEN {}
    ELSE ShipCells(b.myShips[1]) \cup ShipCells(b.myShips[Len(b.myShips)])
         \cup { <<b.boardSize - 1, b.boardSize - 1>> }

CatShoot == \E rc \in CatTargets(board) : Shoot(rc[2], rc[1])

NextCatalog ==
    \/ SetupPlayerBoard
    \/ CatDraw
    \/ GenPlace
    \/ AcceptBoard
    \/ CatShoot

SpecCatalog == InitCatalog /\ [][NextCatalog]_vars

\* C9: once the fleet is placed, getRemainingShips() is the number of
\* placed ships that are not sunk, getRemainingShips() + getSunkCount() is
\* the number of ships placed, and getRemainingShips() = 0 exactly when
\* every ship is sunk.
C9_RemainingShips ==
    (pc \in {"review", "play"}) =>
      /\ getRemainingShips(board) =
           Cardinality({ k \in 1..Len(board.myShips) : ~board.myShips[k].isSunk })
      /\ getRemainingShips(board) + getSunkCount(board) = Len(board.myShips)
      /\ (getRemainingShips(board) = 0) <=>
           (\A k \in 1..Len(board.myShips) : board.myShips[k].isSunk)


(***************************************************************************)
(* The AI opponent (src/logic/ai_logic.cpp).  Coordinates are <<x, y>>;    *)
(* opponentBoard is keyed <<row, column>> like boardArray.                 *)
(***************************************************************************)
\* the outcomes of rand() % n that are followed, as 1-based positions: the
\* first and the last element
RandIndex(n) == {1, n}

Reverse(s) == [k \in 1..Len(s) |-> s[Len(s) + 1 - k]]

\* the outcomes of std::random_shuffle that are followed: the order built
\* by the loops and its reverse
Shuffles(s) == {s, Reverse(s)}

RemoveAt(s, k) == SubSeq(s, 1, k - 1) \o SubSeq(s, k + 1, Len(s))

\* position of the first element equal to e, 0 when there is none
IndexOf(s, e) ==
    IF \E k \in 1..Len(s) : s[k] = e
    THEN Min({ k \in 1..Len(s) : s[k] = e })
    ELSE 0

\* the search-and-erase loops of pickAttackCoordinates
EraseFirst(s, e) == IF IndexOf(s, e) = 0 THEN s ELSE RemoveAt(s, IndexOf(s, e))

\* the coordinates in the order of the two for loops (i the row, j the
\* column)
AllShots(size) ==
    [k \in 1..(size * size) |-> << (k - 1) % size, (k - 1) \div size >>]

IsParity(c) == (c[1] + c[2]) % 2 = 0

\* AILogic::initializeAvailableShots: the pairs of shuffled lists
initializeAvailableShots(size) ==
    { [availableShots |-> av, parityShots |-> par] :
        av \in Shuffles(AllShots(size)),
        par \in Shuffles(SelectSeq(AllShots(size), IsParity)) }

\* generateBoardPlacement when the draws for piece i are cands[i] and each
\* of them is accepted
RECURSIVE generateBoardPlacementWith(_, _, _, _)
generateBoardPlacementWith(b, ps, cands, i) ==
    IF i > Len(ps) THEN b
    ELSE LET o == AcceptedOrientation(b, cands[i][2], cands[i][1], ps[i].length)
         IN IF o = 0 THEN b
            ELSE generateBoardPlacementWith(
                   addShip(b, o, cands[i][1], ps[i].length, ps[i].symbol),
                   ps, cands, i + 1)

\* the draws followed for the AI's own fleet: piece i lies horizontally,
\* leftwards from the last column of row size - 1 - i
AIPeg(size, i) == (size * size - 1) - i * size

\* AILogic::setupBoard
setupBoard(size) ==
    LET r == initializeGamePieces(initialize(NewBoard(size), size)) IN
    generateBoardPlacementWith(
        r.board, r.pieces,
        [k \in 1..Len(r.pieces) |-> << AIPeg(size, k - 1), 2 >>], 1)

\* AILogic::AILogic: the objects the constructor can produce
AILogic(diff, size) ==
    { [difficulty |-> diff,
       aiBoard |-> setupBoard(size),
       opponentBoard |-> [rc \in Cells(size) |-> "?"],
       lastHit |-> NoShot,
       hunting |-> FALSE,
       availableShots |-> sh.availableShots,
       targetQueue |-> << >>,
       parityShots |-> sh.parityShots,
       boardSize |-> size] : sh \in initializeAvailableShots(size) }

\* addSmartNeighbors looking up and left only
addSmartNeighbors_upLeft(a, x, y) ==
    LET nb == << <<x, y - 1>>, <<x - 1, y>> >>
        Open(c) == /\ InGrid(a.boardSize, c[2], c[1])
                   /\ a.opponentBoard[<<c[2], c[1]>>] \in {"?", " "}
    IN [a EXCEPT !.targetQueue = @ \o SelectSeq(nb, Open)]

\* AILogic::addSmartNeighbors: up, down, left, right
addSmartNeighbors(a, x, y) ==
    LET nb == << <<x, y - 1>>, <<x, y + 1>>, <<x - 1, y>>, <<x + 1, y>> >>
        Open(c) == /\ InGrid(a.boardSize, c[2], c[1])
                   /\ a.opponentBoard[<<c[2], c[1]>>] \in {"?", " "}
    IN [a EXCEPT !.targetQueue = @ \o SelectSeq(nb, Open)]

\* RandomPick without the erase
RandomPick_noErase(a) ==
    { [ai |-> a, coord |-> a.availableShots[k]] :
        k \in RandIndex(Len(a.availableShots)) }

\* "int index = rand() % availableShots.size()" and the erase after it
RandomPick(a) ==
    { [ai |-> [a EXCEPT !.availableShots = RemoveAt(@, k)],
       coord |-> a.availableShots[k]] : k \in RandIndex(Len(a.availableShots)) }

\* QueuePick giving up when the head of the queue is no longer available
QueuePick_headOnly(a) ==
    IF a.targetQueue = << >> THEN [ai |-> a, coord |-> NoShot]
    ELSE LET c == Head(a.targetQueue)
             a1 == [a EXCEPT !.targetQueue = Tail(@)]
         IN IF IndexOf(a1.availableShots, c) # 0
            THEN [ai |-> [a1 EXCEPT !.availableShots = EraseFirst(@, c),
                                    !.parityShots = EraseFirst(@, c)],
                  coord |-> c]
            ELSE [ai |-> a1, coord |-> NoShot]

\* priority 1 of pickAttackCoordinates: pop the queue until an entry is
\* still available; coord is NoShot when the queue runs out
RECURSIVE QueuePick(_)
QueuePick(a) ==
    IF a.targetQueue = << >> THEN [ai |-> a, coord |-> NoShot]
    ELSE LET c == Head(a.targetQueue)
             a1 == [a EXCEPT !.targetQueue = Tail(@)]
         IN IF IndexOf(a1.availableShots, c) # 0
            THEN [ai |-> [a1 EXCEPT !.availableShots = EraseFirst(@, c),
                                    !.parityShots = EraseFirst(@, c)],
                  coord |-> c]
            ELSE QueuePick(a1)

\* ParityPick leaving the cell in availableShots
ParityPick_keepAvailable(a) ==
    [ai |-> [a EXCEPT !.parityShots = SubSeq(@, 1, Len(@) - 1)],
     coord |-> a.parityShots[Len(a.parityShots)]]

\* priority 2 of pickAttackCoordinates: parityShots.back()
ParityPick(a) ==
    LET c == a.parityShots[Len(a.parityShots)] IN
    [ai |-> [a EXCEPT !.parityShots = SubSeq(@, 1, Len(@) - 1),
                      !.availableShots = EraseFirst(@, c)],
     coord |-> c]

\* pickAttackCoordinates going from the queue straight to the random pick
pickAttackCoordinates_noParity(a) ==
    IF a.availableShots = << >> THEN { [ai |-> a, coord |-> NoShot] }
    ELSE IF a.difficulty = "EASY" THEN RandomPick(a)
    ELSE LET q == QueuePick(a) IN
         IF q.coord # NoShot THEN {q} ELSE RandomPick(q.ai)

\* AILogic::pickAttackCoordinates: the possible results
pickAttackCoordinates(a) ==
    IF a.availableShots = << >> THEN { [ai |-> a, coord |-> NoShot] }
    ELSE IF a.difficulty = "EASY" THEN RandomPick(a)
    ELSE LET q == QueuePick(a) IN
         IF q.coord # NoShot THEN {q}
         ELSE IF q.ai.parityShots # << >> THEN { ParityPick(q.ai) }
         ELSE RandomPick(q.ai)

\* recordShotResult keeping no record of a miss
recordShotResult_hitsOnly(a, x, y, hit, sunk) ==
    IF ~InGrid(a.boardSize, y, x) \/ ~hit THEN a
    ELSE [a EXCEPT !.opponentBoard[<<y, x>>] = "X",
                   !.lastHit = <<x, y>>, !.hunting = TRUE]

\* AILogic::recordShotResult
recordShotResult(a, x, y, hit, sunk) ==
    IF ~InGrid(a.boardSize, y, x) THEN a
    ELSE LET a1 == [a EXCEPT !.opponentBoard[<<y, x>>] =
                                 IF hit THEN "X" ELSE "O"]
             a2 == IF a.difficulty = "SMART" /\ hit /\ ~sunk
                   THEN addSmartNeighbors(a1, x, y) ELSE a1
             a3 == IF a.difficulty = "SMART" /\ sunk
                   THEN [a2 EXCEPT !.hunting = FALSE, !.lastHit = NoShot]
                   ELSE a2
         IN IF hit THEN [a3 EXCEPT !.lastHit = <<x, y>>, !.hunting = TRUE]
            ELSE a3

\* BoardData::getShipOccupiedCells: the cells <<column, row>> of the first
\* registered ship lying over (x, y)
getShipOccupiedCells(b, x, y) ==
    LET belongsToShip(ship) ==
            IF ship.orientation = 1
            THEN x = ship.startCol /\ y >= ship.startRow
                 /\ y < ship.startRow + ship.length
            ELSE y = ship.startRow /\ x <= ship.startCol
                 /\ x > ship.startCol - ship.length
        ks == { k \in 1..Len(b.myShips) : belongsToShip(b.myShips[k]) }
    IN IF ks = {} THEN << >>
       ELSE LET ship == b.myShips[Min(ks)] IN
            [j \in 1..ship.length |->
               IF ship.orientation = 1
               THEN << ship.startCol, ship.startRow + (j - 1) >>
               ELSE << ship.startCol - (j - 1), ship.startRow >>]


(***************************************************************************)
(* A game against the AI (playAIGame, GameLoop::runGameLoop with isAI).    *)
(* board is the player's board.  The draws of the player's random          *)
(* placement are the layout of CanonicalPeg; the manual placement puts     *)
(* piece k upright in column k, its origin in row length - 1.  A press of  *)
(* the space key is taken together with the cursor moves before it.        *)
(***************************************************************************)
boardVars == << pc, pieces, gen_i, starting_peg, orientation, attempts,
                shipToPlace, shotCount, last, ub >>

\* playAIGame up to the construction of the AILogic object
InitGame ==
    /\ pc = "new"
    /\ board = NewBoard(BoardSize)
    /\ pieces = << >>
    /\ gen_i = 0
    /\ starting_peg = 0 - 1
    /\ orientation = 1
    /\ attempts = 0
    /\ shipToPlace = 0
    /\ shotCount = 0
    /\ last = NoCall(NewBoard(BoardSize))
    /\ ub = FALSE
    /\ \E shots \in 1..MaxSalvoSize : game = [NoGame EXCEPT !.shots = shots]
    /\ \E diff \in {"EASY", "SMART"} : ai \in AILogic(diff, BoardSize)
    /\ calls = NoCalls
    /\ net = NoNet
    /\ config = NoConfig

\* one placeShip of the manual placement loop that the code accepts
GamePlace ==
    /\ shipToPlace < Len(pieces)
    /\ PlaceShip(shipToPlace, pieces[shipToPlace + 1].length - 1, 1)

\* the locals of runGameLoop before its while loop
StartGame ==
    /\ ~ub
    /\ pc = "play"
    /\ game.status = "none"
    /\ game' = [status |-> "running",
                shots |-> game.shots,
                playerHits |-> 0,
                enemyHits |-> 0,
                playerShipsRemaining |-> TotalShipsOf(FleetConfig(board.boardSize)),
                enemyShipsRemaining |-> TotalShipsOf(FleetConfig(board.boardSize)),
                playerTurn |-> TRUE,
                selectingMode |-> TRUE,
                playerShots |-> << >>,
                i |-> 0,
                enemyKnownBoard |-> [rc \in Cells(board.boardSize) |-> " "],
                enemyBoard |-> NewBoard(board.boardSize).boardArray,
                salvos |-> 0]
    /\ UNCHANGED << board, boardVars, ai, calls, net, config >>

\* InLoop with the loop going on after a return
InLoop_afterReturn == game.status # "none"

\* runGameLoop has been called and has not returned
InLoop == game.status = "running"

\* the head of the while loop: its condition, in a call that has not
\* returned
Running ==
    /\ InLoop
    /\ game.playerShipsRemaining > 0
    /\ game.enemyShipsRemaining > 0

\* fleetDestroyed looked at only after the last shot of a volley
fleetDestroyed_atVolleyEnd(remaining, isLast) == remaining <= 0 /\ isLast

\* "if (enemyShipsRemaining <= 0) break" and "if (playerShipsRemaining <= 0)
\* break" after a shot, with the return that follows the loop
fleetDestroyed(remaining, isLast) == remaining <= 0

\* CanSelect without the search for the cell among the shots selected
CanSelect_duplicates(g, x, y) ==
    /\ g.enemyKnownBoard[<<y, x>>] = " "
    /\ Len(g.playerShots) < g.shots

\* the conditions under which space or enter adds the cell to the volley
CanSelect(g, x, y) ==
    /\ g.enemyKnownBoard[<<y, x>>] = " "
    /\ Len(g.playerShots) < g.shots
    /\ ~\E k \in 1..Len(g.playerShots) : g.playerShots[k] = <<x, y>>

\* space or enter with the cursor on (x, y)
PlayerSelect(x, y) ==
    /\ Running
    /\ game.playerTurn
    /\ game.selectingMode
    /\ game' = IF CanSelect(game, x, y)
               THEN [game EXCEPT !.playerShots = Append(@, <<x, y>>)]
               ELSE game
    /\ UNCHANGED << board, boardVars, ai, calls, net, config >>

\* key F
PlayerFire ==
    /\ Running
    /\ game.playerTurn
    /\ game.selectingMode
    /\ game.salvos < MaxSalvos
    /\ game' = IF Len(game.playerShots) > 0
               THEN [game EXCEPT !.selectingMode = FALSE, !.i = 0,
                                 !.salvos = @ + 1]
               ELSE game
    /\ UNCHANGED << board, boardVars, ai, calls, net, config >>

\* key Q
PlayerQuit ==
    /\ Running
    /\ game.playerTurn
    /\ game.selectingMode
    /\ game' = [game EXCEPT !.status = "quit"]
    /\ UNCHANGED << board, boardVars, ai, calls, net, config >>

\* what one iteration of the firing loop does to the locals, given the
\* result of receiveShot and the AI's board after it
PlayerShotUpdate(g, shotX, shotY, ret, aiBoard) ==
    IF ret = 0
    THEN [g EXCEPT !.enemyKnownBoard[<<shotY, shotX>>] = "m",
                   !.enemyBoard[<<shotY, shotX>>] = "o"]
    ELSE IF ret = 1
    THEN [g EXCEPT !.playerHits = @ + 1,
                   !.enemyKnownBoard[<<shotY, shotX>>] = "h",
                   !.enemyBoard[<<shotY, shotX>>] = "x"]
    ELSE LET sunkCells == getShipOccupiedCells(aiBoard, shotX, shotY)
             sunk == { << sunkCells[k][2], sunkCells[k][1] >> :
                         k \in 1..Len(sunkCells) }
         IN [g EXCEPT !.playerHits = @ + 1,
                      !.enemyShipsRemaining = @ - 1,
                      !.enemyKnownBoard =
                          [rc \in DOMAIN @ |-> IF rc \in sunk THEN "s" ELSE @[rc]],
                      !.enemyBoard =
                          [rc \in DOMAIN @ |-> IF rc \in sunk THEN "s" ELSE @[rc]]]

\* endPlayerVolley leaving the turn with the player
endPlayerVolley_keepTurn(g) ==
    [g EXCEPT !.playerShots = << >>, !.selectingMode = TRUE, !.i = 0]

\* "Reset for next turn": shotsSelected = 0, selectingMode = true,
\* playerTurn = false
endPlayerVolley(g) ==
    [g EXCEPT !.playerShots = << >>, !.selectingMode = TRUE,
              !.playerTurn = FALSE, !.i = 0]

\* one iteration of the firing loop, with what follows the loop when this
\* iteration is its last: the victory check, or the reset for the next turn
PlayerShot ==
    /\ InLoop
    /\ game.i = 0 => Running
    /\ game.playerTurn
    /\ ~game.selectingMode
    /\ LET shot == game.playerShots[game.i + 1]
           r == receiveShot(ai.aiBoard, shot[1], shot[2])
           g == PlayerShotUpdate(game, shot[1], shot[2], r.ret, r.board)
       IN /\ ai' = [ai EXCEPT !.aiBoard = r.board]
          /\ game' =
               IF fleetDestroyed(g.enemyShipsRemaining,
                                 game.i + 1 >= Len(game.playerShots))
               THEN [g EXCEPT !.status = "won"]
               ELSE IF game.i + 1 >= Len(game.playerShots)
               THEN endPlayerVolley(g)
               ELSE [g EXCEPT !.i = @ + 1]
    /\ UNCHANGED << board, boardVars, calls, net, config >>

\* EnemyShotUpdate counting a sinking shot as a hit only
EnemyShotUpdate_hitOnly(g, ret) ==
    IF ret = 0 THEN g ELSE [g EXCEPT !.enemyHits = @ + 1]

\* what one iteration of the enemy's loop does to the counters
EnemyShotUpdate(g, ret) ==
    IF ret = 0 THEN g
    ELSE IF ret = 1 THEN [g EXCEPT !.enemyHits = @ + 1]
    ELSE [g EXCEPT !.enemyHits = @ + 1, !.playerShipsRemaining = @ - 1]

\* one iteration of the enemy's loop: the AI picks, the player's board
\* resolves, the AI records; with what follows the loop when this
\* iteration is its last
AIShot ==
    /\ InLoop
    /\ game.i = 0 => Running
    /\ ~game.playerTurn
    /\ game.i = 0 => game.salvos < MaxSalvos
    /\ \E p \in pickAttackCoordinates(ai) :
         LET salvos == IF game.i = 0 THEN game.salvos + 1 ELSE game.salvos IN
         IF p.coord[1] = 0 - 1 \/ p.coord[2] = 0 - 1
         THEN /\ ai' = p.ai
              /\ board' = board
              /\ game' = [game EXCEPT !.playerTurn = TRUE, !.i = 0,
                                      !.salvos = salvos]
         ELSE LET r == receiveShot(board, p.coord[1], p.coord[2])
                  g == EnemyShotUpdate(game, r.ret)
              IN /\ board' = r.board
                 /\ ai' = recordShotResult(p.ai, p.coord[1], p.coord[2],
                                           r.ret # 0, r.ret = 2)
                 /\ game' =
                      IF fleetDestroyed(g.playerShipsRemaining,
                                        game.i + 1 >= game.shots)
                      THEN [g EXCEPT !.status = "lost", !.salvos = salvos]
                      ELSE IF game.i + 1 >= game.shots
                      THEN [g EXCEPT !.playerTurn = TRUE, !.i = 0,
                                     !.salvos = salvos]
                      ELSE [g EXCEPT !.i = @ + 1, !.salvos = salvos]
    /\ UNCHANGED << boardVars, calls, net, config >>

NextGame ==
    \/ SetupPlayerBoard
    \/ CatDraw
    \/ GenPlace
    \/ AcceptBoard
    \/ SwitchToManual
    \/ GamePlace
    \/ StartGame
    \/ \E x \in 0..(board.boardSize - 1), y \in 0..(board.boardSize - 1) :
          PlayerSelect(x, y)
    \/ PlayerFire
    \/ PlayerQuit
    \/ PlayerShot
    \/ AIShot

SpecGame == InitGame /\ [][NextGame]_vars

\* GameState::isGameOver with maxHits the number of ship cells of a fleet
isGameOver(playerHits, enemyHits, maxHits) ==
    playerHits >= maxHits \/ enemyHits >= maxHits

\* C10: in a game, a side's hit count has reached the number of ship cells
\* of a fleet exactly when the other side's count of remaining ships has
\* reached 0, and runGameLoop has returned with a winner exactly then.
C10_WinConditionsCoincide ==
    (game.status # "none") =>
      LET maxHits == TotalShipCellsOf(FleetConfig(board.boardSize)) IN
      /\ (game.playerHits >= maxHits) <=> (game.enemyShipsRemaining <= 0)
      /\ (game.enemyHits >= maxHits) <=> (game.playerShipsRemaining <= 0)
      /\ (game.status \in {"won", "lost"}) <=>
           isGameOver(game.playerHits, game.enemyHits, maxHits)


(***************************************************************************)
(* Properties of the game loop, checked under SpecGame.                    *)
(***************************************************************************)
\* a shot has been resolved on the cell
Resolved(cell) == cell \in {"o", "x", "s"}

Range(s) == { s[k] : k \in 1..Len(s) }

\* C11: the shots of a volley are resolved one at a time in the order of
\* their selection (the first i are resolved, the later ones are not); a
\* fleet counter at zero has ended the game at once, so the shots queued
\* behind the deciding one stay unresolved; every cell the enemy has picked
\* is resolved on the player's board before the next pick.
C11_OneShotAtATime ==
    (game.status # "none") =>
      /\ (game.enemyShipsRemaining <= 0) => (game.status = "won")
      /\ (game.playerShipsRemaining <= 0) => (game.status = "lost")
      /\ (game.playerTurn /\ ~game.selectingMode) =>
           \A k \in 1..Len(game.playerShots) :
             LET shot == game.playerShots[k]
                 done == Resolved(ai.aiBoard.boardArray[<<shot[2], shot[1]>>])
             IN IF k <= game.i THEN done
                ELSE IF k = game.i + 1 THEN done <=> (game.status = "won")
                ELSE ~done
      /\ Cardinality({ rc \in Cells(board.boardSize) :
                         Resolved(board.boardArray[rc]) })
           = board.boardSize * board.boardSize - Len(ai.availableShots)

\* the player has won with a selected shot still unresolved
C11_Witness ==
    /\ game.status = "won"
    /\ game.i + 1 < Len(game.playerShots)

\* C12: a fleet counter at zero means runGameLoop has returned with a
\* winner, and from then on no step changes a board, the fog view, a
\* counter, the pending volley or the AI.
C12_GameOverAbsorbing ==
    /\ [](( /\ game.status # "none"
            /\ (game.playerShipsRemaining <= 0 \/ game.enemyShipsRemaining <= 0) )
          => game.status \in {"won", "lost"})
    /\ [][ (game.status \in {"won", "lost"}) => UNCHANGED << board, game, ai >> ]_vars

\* the AI has sunk the player's last ship
C12_Witness ==
    /\ game.status = "lost"
    /\ game.playerShipsRemaining = 0
    /\ getRemainingShips(board) = 0

InitAI ==
    /\ pc = "new"
    /\ board = NewBoard(BoardSize)
    /\ pieces = << >>
    /\ gen_i = 0
    /\ starting_peg = 0 - 1
    /\ orientation = 1
    /\ attempts = 0
    /\ shipToPlace = 0
    /\ shotCount = 0
    /\ last = NoCall(NewBoard(BoardSize))
    /\ ub = FALSE
    /\ game = NoGame
    /\ \E diff \in {"EASY", "SMART"} : ai \in AILogic(diff, BoardSize)
    /\ calls = NoCalls
    /\ net = NoNet
    /\ config = NoConfig

\* a call of pickAttackCoordinates
AIPick ==
    /\ calls.picks < MaxPicks
    /\ \E p \in pickAttackCoordinates(ai) :
         /\ ai' = p.ai
         /\ last' = Call("pick", p.coord[1], p.coord[2], 0, 0, 0, FALSE, ai)
         /\ calls' = [calls EXCEPT !.picks = @ + 1,
                                   !.cells = @ \cup {p.coord}]
    /\ UNCHANGED << pc, board, pieces, genVars, shipToPlace, shotCount, ub, game, net, config >>

\* a call of recordShotResult: ret is 0 for a miss, 1 for a hit, 2 for a
\* hit that sinks
AIRecord(x, y, ret) ==
    /\ calls.records < MaxRecords
    /\ ai' = recordShotResult(ai, x, y, ret # 0, ret = 2)
    /\ last' = Call("record", x, y, 0, 0, ret, FALSE, ai)
    /\ calls' = [calls EXCEPT !.records = @ + 1,
                              !.hits = IF ret # 0 THEN @ + 1 ELSE @]
    /\ UNCHANGED << pc, board, pieces, genVars, shipToPlace, shotCount, ub, game, net, config >>

\* the cells recordShotResult is called for: the grid and one cell outside
RecordCoords(size) ==
    { << c[2], c[1] >> : c \in Cells(size) } \cup { << size, 0 >> }

NextAI ==
    \/ AIPick
    \/ \E c \in RecordCoords(ai.boardSize), ret \in {0, 1, 2} :
          AIRecord(c[1], c[2], ret)

SpecAI == InitAI /\ [][NextAI]_vars


(***************************************************************************)
(* Properties of the AI, checked under SpecAI.                             *)
(***************************************************************************)
LastPick == last.op = "pick"

LastRecord == last.op = "record"

\* C16: the picks made so far returned pairwise distinct cells of the
\* grid, one per call, until the N*N cells were used up, and (-1,-1) from
\* then on.
C16_NoRepeatedPick ==
    LET n == ai.boardSize * ai.boardSize IN
    /\ \A c \in calls.cells :
         c = NoShot \/ InGrid(ai.boardSize, c[2], c[1])
    /\ Cardinality(calls.cells \ {NoShot}) =
         IF calls.picks < n THEN calls.picks ELSE n
    /\ (NoShot \in calls.cells) <=> (calls.picks > n)

\* a Smart AI has returned every cell and then (-1,-1), with outcomes
\* recorded in between
C16_Witness ==
    /\ ai.difficulty = "SMART"
    /\ calls.picks = ai.boardSize * ai.boardSize + 1
    /\ NoShot \in calls.cells
    /\ calls.records > 0

Neighbours(x, y) == { <<x - 1, y>>, <<x + 1, y>>, <<x, y - 1>>, <<x, y + 1>> }

\* the last call recorded a hit that did not sink, on a cell of the grid,
\* on a Smart AI whose queue was empty
HitOnEmptyQueue ==
    /\ LastRecord
    /\ last.ret = 1
    /\ InGrid(ai.boardSize, last.y, last.x)
    /\ ai.difficulty = "SMART"
    /\ last.pre.targetQueue = << >>

\* C17 as stated (for a hit inside the grid): if a neighbour of the hit
\* cell is in the grid and untried, the next pick is a neighbour of the
\* hit cell.
C17_NeighbourAfterHit ==
    ( /\ HitOnEmptyQueue
      /\ \E c \in Neighbours(last.x, last.y) :
           /\ InGrid(ai.boardSize, c[2], c[1])
           /\ c \in Range(ai.availableShots) )
    => \A p \in pickAttackCoordinates(ai) :
         p.coord \in Neighbours(last.x, last.y)

\* C17 amended: if a neighbour of the hit cell is in the grid, untried and
\* without a recorded outcome, the next pick is such a neighbour.
C17_OpenNeighbourAfterHit ==
    ( /\ HitOnEmptyQueue
      /\ \E c \in Neighbours(last.x, last.y) :
           /\ InGrid(ai.boardSize, c[2], c[1])
           /\ c \in Range(ai.availableShots)
           /\ ai.opponentBoard[<<c[2], c[1]>>] = "?" )
    => \A p \in pickAttackCoordinates(ai) :
         /\ p.coord \in Neighbours(last.x, last.y)
         /\ p.coord \in Range(ai.availableShots)
         /\ ai.opponentBoard[<<p.coord[2], p.coord[1]>>] = "?"

\* a hit has been recorded next to an open cell, after a pick and another
\* record
C17_Witness ==
    /\ HitOnEmptyQueue
    /\ calls.picks >= 1
    /\ calls.records >= 2
    /\ \E c \in Neighbours(last.x, last.y) :
         /\ InGrid(ai.boardSize, c[2], c[1])
         /\ c \in Range(ai.availableShots)
         /\ ai.opponentBoard[<<c[2], c[1]>>] = "?"

\* C18: once a hit and then a sinking hit have been recorded, the Smart AI
\* picks by the parity/random rule: the last cell of the parity pool, or
\* an untried cell when the pool is empty.
C18_FallbackAfterSunk ==
    ( /\ LastRecord
      /\ last.ret = 2
      /\ InGrid(ai.boardSize, last.y, last.x)
      /\ ai.difficulty = "SMART"
      /\ \E rc \in Cells(ai.boardSize) :
           rc # <<last.y, last.x>> /\ ai.opponentBoard[rc] = "X"
      /\ ai.availableShots # << >> )
    => \A p \in pickAttackCoordinates(ai) :
         IF ai.parityShots # << >>
         THEN p.coord = ai.parityShots[Len(ai.parityShots)]
         ELSE p.coord \in Range(ai.availableShots)

\* C19: a pick of a Smart AI with no hit on record and a non-empty parity
\* pool returns a cell with x + y even.
C19_ParityFirst ==
    ( /\ LastPick
      /\ last.pre.difficulty = "SMART"
      /\ last.pre.parityShots # << >>
      /\ calls.hits = 0 )
    => (last.x + last.y) % 2 = 0

\* the second pick of a Smart AI with a miss on record and no hit
C19_Witness ==
    /\ LastPick
    /\ last.pre.difficulty = "SMART"
    /\ last.pre.parityShots # << >>
    /\ calls.picks = 2
    /\ calls.records >= 1
    /\ calls.hits = 0

\* positions of the queue entries that are still untried
UntriedInQueue(a) ==
    { k \in 1..Len(a.targetQueue) : a.targetQueue[k] \in Range(a.availableShots) }

\* C20: a pick of a Smart AI returns the first untried entry of the queue
\* and drops the entries up to it; with no such entry it returns a cell of
\* the parity pool; with the pool empty too it returns an untried cell.
C20_PickPriority ==
    ( /\ LastPick
      /\ last.pre.difficulty = "SMART"
      /\ last.pre.availableShots # << >> )
    => LET pre == last.pre
           coord == << last.x, last.y >>
       IN /\ coord \in Range(pre.availableShots)
          /\ coord \notin Range(ai.availableShots)
          /\ IF UntriedInQueue(pre) # {}
             THEN LET k == Min(UntriedInQueue(pre)) IN
                  /\ coord = pre.targetQueue[k]
                  /\ ai.targetQueue = SubSeq(pre.targetQueue, k + 1,
                                             Len(pre.targetQueue))
                  /\ ai.parityShots = EraseFirst(pre.parityShots, coord)
             ELSE /\ ai.targetQueue = << >>
                  /\ IF pre.parityShots # << >>
                     THEN /\ coord \in Range(pre.parityShots)
                          /\ Len(ai.parityShots) = Len(pre.parityShots) - 1
                     ELSE ai.parityShots = << >>

\* the pick skipped a tried entry at the head of the queue and returned a
\* later one
C20_Witness ==
    /\ LastPick
    /\ last.pre.difficulty = "SMART"
    /\ UntriedInQueue(last.pre) # {}
    /\ Min(UntriedInQueue(last.pre)) > 1


(***************************************************************************)
(* Properties of generateBoardPlacement, checked under Spec (bounded       *)
(* board, every draw, retries and restarts) and under SpecCatalog (the     *)
(* catalog fleets).                                                        *)
(***************************************************************************)
\* the cells of the grid that are not water
OccupiedCells(b) == { rc \in Cells(b.boardSize) : b.boardArray[rc] # "w" }

\* C21: when generateBoardPlacement has returned, the board holds one
\* registered ship per piece of the fleet, with the piece's length and
\* symbol, each inside the grid; the occupied cells are exactly the cells
\* of these ships, as many as the fleet has ship cells; and
\* getRemainingShips() is the number of pieces.
C21_RandomizeFleet ==
    (pc = "review") =>
      /\ Len(board.myShips) = Len(pieces)
      /\ \A k \in 1..Len(board.myShips) :
           /\ board.myShips[k].length = pieces[k].length
           /\ board.myShips[k].symbol = pieces[k].symbol
           /\ ShipCells(board.myShips[k]) \subseteq Cells(board.boardSize)
      /\ OccupiedCells(board) =
           UNION { ShipCells(board.myShips[k]) : k \in 1..Len(board.myShips) }
      /\ Cardinality(OccupiedCells(board)) =
           TotalShipCellsOf(FleetConfig(board.boardSize))
      /\ getRemainingShips(board) = Len(pieces)


(***************************************************************************)
(* generateBoardPlacement on its own, with fairness: the loop keeps        *)
(* running, and the draws of rand() are fair in that, for each piece, a    *)
(* candidate the board accepts is drawn again and again if the loop keeps  *)
(* drawing for that piece with such a candidate available.                 *)
(***************************************************************************)
\* a step of the loop of generateBoardPlacement
GenStep == GenDraw \/ GenPlace \/ GenRetry \/ GenRestart

\* a draw for piece k that checkStartingPeg accepts
GoodSample(k) ==
    /\ gen_i = k
    /\ (GenDraw \/ GenRetry)
    /\ AcceptedOrientation(board, orientation', starting_peg',
                           pieces[gen_i + 1].length) # 0

NextRandomize ==
    \/ SetupPlayerBoard
    \/ GenDraw
    \/ GenPlace
    \/ GenRetry
    \/ GenRestart
    \/ Regenerate

FairSampling ==
    /\ WF_vars(GenStep)
    /\ \A k \in 0..(TotalShipsOf(ScaledConfig) - 1) : SF_vars(GoodSample(k))

SpecRandomize == Init /\ [][NextRandomize]_vars /\ FairSampling

\* C22: every call of generateBoardPlacement returns: from any point of
\* the loop, retries and restarts included, the placement is eventually
\* complete.
C22_Terminates == (pc = "gen") ~> (pc = "review")

\* the loop has restarted from an empty board and is drawing for the
\* first piece again
C22_Witness ==
    /\ pc = "gen"
    /\ gen_i = 0
    /\ starting_peg >= 0
    /\ attempts > 0
    /\ OccupiedCells(board) = {}


(***************************************************************************)
(* A remote game (playMultiplayerHost, playMultiplayerClient, and          *)
(* GameLoop::runGameLoop with a socket).  Each peer has its own board and  *)
(* its own run of the game loop; chan[p] holds what has been sent to peer  *)
(* p and not yet received, in order.  The connection can break at any      *)
(* time, and it is closed by a peer that returns; after that a recv with   *)
(* nothing left to read fails and a send may fail.  The fleets are laid    *)
(* out as CanonicalPeg (host) and AIPeg (client) draw them; the shots go   *)
(* to the cells of the opponent's ships and one water cell.                *)
(***************************************************************************)
Peers == {"host", "client"}

Other(p) == IF p = "host" THEN "client" ELSE "host"

\* what one send() carries: the settings, a shot count, a pair of
\* coordinates, or an outcome byte
Msg(t, a, b) == [t |-> t, a |-> a, b |-> b]

\* responseChar answering a sinking shot like a hit
responseChar_noSunk(result) == IF result = 0 THEN "m" ELSE "h"

\* the byte the defender sends back for the result of receiveShot
responseChar(result) ==
    IF result = 0 THEN "m" ELSE IF result = 1 THEN "h" ELSE "s"

\* "Convert network response to shot result"
shotResultOf(answer) ==
    IF answer = "m" THEN 0 ELSE IF answer = "h" THEN 1 ELSE 2

\* floodFill spreading over every cell that is not sunk yet
RECURSIVE floodFill_anyCell(_, _, _)
floodFill_anyCell(grid, size, queue) ==
    IF queue = << >> THEN grid
    ELSE LET cx == Head(queue)[1]
             cy == Head(queue)[2]
             nb == << <<cx, cy - 1>>, <<cx, cy + 1>>, <<cx - 1, cy>>, <<cx + 1, cy>> >>
             NotSunk(c) == /\ InGrid(size, c[2], c[1])
                           /\ grid[<<c[2], c[1]>>] # "s"
             found == SelectSeq(nb, NotSunk)
             cells == { << found[k][2], found[k][1] >> : k \in 1..Len(found) }
         IN floodFill_anyCell([rc \in DOMAIN grid |->
                                 IF rc \in cells THEN "s" ELSE grid[rc]],
                              size, Tail(queue) \o found)

\* the breadth-first search of the attacker after a sunk answer: every hit
\* cell next to a cell of the queue becomes sunk and joins the queue
RECURSIVE floodFill(_, _, _)
floodFill(grid, size, queue) ==
    IF queue = << >> THEN grid
    ELSE LET cx == Head(queue)[1]
             cy == Head(queue)[2]
             nb == << <<cx, cy - 1>>, <<cx, cy + 1>>, <<cx - 1, cy>>, <<cx + 1, cy>> >>
             IsHit(c) == /\ InGrid(size, c[2], c[1])
                         /\ grid[<<c[2], c[1]>>] = "x"
             found == SelectSeq(nb, IsHit)
             cells == { << found[k][2], found[k][1] >> : k \in 1..Len(found) }
         IN floodFill([rc \in DOMAIN grid |->
                         IF rc \in cells THEN "s" ELSE grid[rc]],
                      size, Tail(queue) \o found)

\* what one iteration of the firing loop does to the locals in a remote
\* game, given the shot result decoded from the answer
RemoteShotUpdate(g, shotX, shotY, ret, size) ==
    IF ret = 0
    THEN [g EXCEPT !.enemyKnownBoard[<<shotY, shotX>>] = "m",
                   !.enemyBoard[<<shotY, shotX>>] = "o"]
    ELSE IF ret = 1
    THEN [g EXCEPT !.playerHits = @ + 1,
                   !.enemyKnownBoard[<<shotY, shotX>>] = "h",
                   !.enemyBoard[<<shotY, shotX>>] = "x"]
    ELSE LET start == [g.enemyBoard EXCEPT ![<<shotY, shotX>>] = "s"]
             filled == floodFill(start, size, << <<shotX, shotY>> >>)
         IN [g EXCEPT !.playerHits = @ + 1,
                      !.enemyShipsRemaining = @ - 1,
                      !.enemyBoard = filled,
                      !.enemyKnownBoard =
                          [rc \in DOMAIN @ |->
                             IF filled[rc] = "s" /\ g.enemyBoard[rc] # "s"
                             THEN "s" ELSE @[rc]]]

\* the board a peer brings into the game
RemoteBoard(p, size) ==
    LET r == initializeGamePieces(initialize(NewBoard(size), size)) IN
    IF p = "host"
    THEN generateBoardPlacementWith(
            r.board, r.pieces,
            [k \in 1..Len(r.pieces) |-> << CanonicalPeg(size, k - 1), 1 >>], 1)
    ELSE setupBoard(size)

\* the cells <<x, y>> a peer aims at: the opponent's ship cells and the
\* first water cell
RemoteTargets(p, size) ==
    LET b == RemoteBoard(Other(p), size)
        water == { rc \in Cells(size) : b.boardArray[rc] = "w" }
        first == CHOOSE rc \in water :
                   \A other \in water :
                     rc[1] * size + rc[2] <= other[1] * size + other[2]
    IN { << rc[2], rc[1] >> : rc \in OccupiedCells(b) \cup {first} }

\* a peer before the settings are exchanged
NewPeer ==
    [g |-> [NoGame EXCEPT !.status = "settings"],
     board |-> NewBoard(BoardSize),
     at |-> "settings",
     enemyShotsCount |-> 0]

\* the locals of runGameLoop before its while loop, for a remote game
RemoteStart(p, size, shots) ==
    [g |-> [status |-> "running",
            shots |-> shots,
            playerHits |-> 0,
            enemyHits |-> 0,
            playerShipsRemaining |-> TotalShipsOf(FleetConfig(size)),
            enemyShipsRemaining |-> TotalShipsOf(FleetConfig(size)),
            playerTurn |-> (p = "host"),
            selectingMode |-> TRUE,
            playerShots |-> << >>,
            i |-> 0,
            enemyKnownBoard |-> [rc \in Cells(size) |-> " "],
            enemyBoard |-> NewBoard(size).boardArray,
            salvos |-> 0],
     board |-> RemoteBoard(p, size),
     at |-> IF p = "host" THEN "select" ELSE "recvCount",
     enemyShotsCount |-> shots]

InitRemote ==
    /\ pc = "new"
    /\ board = NewBoard(BoardSize)
    /\ pieces = << >>
    /\ gen_i = 0
    /\ starting_peg = 0 - 1
    /\ orientation = 1
    /\ attempts = 0
    /\ shipToPlace = 0
    /\ shotCount = 0
    /\ last = NoCall(NewBoard(BoardSize))
    /\ ub = FALSE
    /\ config = NoConfig
    /\ game = NoGame
    /\ ai = NoAI
    /\ calls = NoCalls
    /\ net = [peer |-> [p \in Peers |-> NewPeer],
              chan |-> [p \in Peers |-> << >>],
              up |-> TRUE]

localVars == << pc, board, pieces, gen_i, starting_peg, orientation, attempts,
                shipToPlace, shotCount, last, ub, game, ai, calls, config >>

\* the outcomes of a send(): it succeeds on a connection that is up, and
\* may succeed or fail on one that is down (what it sent is lost)
SendOutcomes(n) == IF n.up THEN {TRUE} ELSE {TRUE, FALSE}

\* the connection after a send() by peer p that returned ok
Sent(n, p, ok, msg) ==
    IF ok /\ n.up THEN [n EXCEPT !.chan[Other(p)] = Append(@, msg)] ELSE n

\* recv() returns: with data when something is there to read, with a
\* failure when nothing is left and the connection is down
CanRecv(n, p) == n.chan[p] # << >>

RecvFails(n, p) == n.chan[p] = << >> /\ ~n.up

\* closesocket and return, with the status the peer leaves the game with
Return(n, p, status) ==
    [n EXCEPT !.peer[p].g.status = status, !.up = FALSE]

\* "Error: Connection lost!", closesocket, return
ConnectionLost(n, p) == Return(n, p, "error")


\* the peer's run of the game loop is at its while loop, whose condition
\* holds
RemoteRunning(p) ==
    /\ net.peer[p].g.status = "running"
    /\ net.peer[p].g.playerShipsRemaining > 0
    /\ net.peer[p].g.enemyShipsRemaining > 0

\* playMultiplayerHost: the host chooses the shots per turn and sends the
\* settings; then its board is set up and its game loop starts
HostSettings ==
    /\ net.peer["host"].at = "settings"
    /\ net.peer["host"].g.status = "settings"
    /\ \E shots \in 1..MaxSalvoSize, ok \in SendOutcomes(net) :
         net' = IF ok
                THEN [Sent(net, "host", ok, Msg("settings", BoardSize, shots))
                        EXCEPT !.peer["host"] = RemoteStart("host", BoardSize, shots)]
                ELSE ConnectionLost(net, "host")
    /\ UNCHANGED localVars

\* playMultiplayerClient: the client receives the settings; then its board
\* is set up and its game loop starts
ClientSettings ==
    /\ net.peer["client"].at = "settings"
    /\ net.peer["client"].g.status = "settings"
    /\ \/ /\ CanRecv(net, "client")
          /\ LET m == Head(net.chan["client"]) IN
             net' = [net EXCEPT !.chan["client"] = Tail(@),
                                !.peer["client"] = RemoteStart("client", m.a, m.b)]
       \/ /\ RecvFails(net, "client")
          /\ net' = ConnectionLost(net, "client")
    /\ UNCHANGED localVars

\* space or enter with the cursor on (x, y)
RemoteSelect(p, x, y) ==
    /\ RemoteRunning(p)
    /\ net.peer[p].at = "select"
    /\ net' = IF CanSelect(net.peer[p].g, x, y)
              THEN [net EXCEPT !.peer[p].g.playerShots = Append(@, <<x, y>>)]
              ELSE net
    /\ UNCHANGED localVars

\* key F
RemoteFire(p) ==
    /\ RemoteRunning(p)
    /\ net.peer[p].at = "select"
    /\ net' = IF Len(net.peer[p].g.playerShots) > 0
              THEN [net EXCEPT !.peer[p].g.selectingMode = FALSE,
                               !.peer[p].g.i = 0,
                               !.peer[p].at = "sendCount"]
              ELSE net
    /\ UNCHANGED localVars

\* key Q
RemoteQuit(p) ==
    /\ RemoteRunning(p)
    /\ net.peer[p].at = "select"
    /\ net' = Return(net, p, "quit")
    /\ UNCHANGED localVars

\* the firing phase up to its loop: sendShotCount
SendShotCount(p) ==
    /\ RemoteRunning(p)
    /\ net.peer[p].at = "sendCount"
    /\ \E ok \in SendOutcomes(net) :
         net' = IF ok
                THEN [Sent(net, p, ok,
                           Msg("count", Len(net.peer[p].g.playerShots), 0))
                        EXCEPT !.peer[p].at = "sendShot"]
                ELSE ConnectionLost(net, p)
    /\ UNCHANGED localVars

\* an iteration of the firing loop up to its receive: sendShot
SendShot(p) ==
    /\ net.peer[p].g.status = "running"
    /\ net.peer[p].at = "sendShot"
    /\ LET shot == net.peer[p].g.playerShots[net.peer[p].g.i + 1] IN
       \E ok \in SendOutcomes(net) :
         net' = IF ok
                THEN [Sent(net, p, ok, Msg("shot", shot[1], shot[2]))
                        EXCEPT !.peer[p].at = "recvResult"]
                ELSE ConnectionLost(net, p)
    /\ UNCHANGED localVars

\* the rest of the iteration: receiveShotResult, the update of the fog
\* view and of the counters, and what follows the loop when the iteration
\* is its last
ReceiveShotResult(p) ==
    /\ net.peer[p].g.status = "running"
    /\ net.peer[p].at = "recvResult"
    /\ \/ /\ CanRecv(net, p)
          /\ LET me == net.peer[p]
                 shot == me.g.playerShots[me.g.i + 1]
                 answer == Head(net.chan[p]).a
                 g == RemoteShotUpdate(me.g, shot[1], shot[2],
                                       shotResultOf(answer), me.board.boardSize)
                 isLast == me.g.i + 1 >= Len(me.g.playerShots)
                 n == [net EXCEPT !.chan[p] = Tail(@)]
             IN net' =
                  IF fleetDestroyed(g.enemyShipsRemaining, isLast)
                  THEN Return([n EXCEPT !.peer[p].g = g], p, "won")
                  ELSE IF isLast
                  THEN [n EXCEPT !.peer[p].g = endPlayerVolley(g),
                                 !.peer[p].at = "recvCount"]
                  ELSE [n EXCEPT !.peer[p].g = [g EXCEPT !.i = @ + 1],
                                 !.peer[p].at = "sendShot"]
       \/ /\ RecvFails(net, p)
          /\ net' = ConnectionLost(net, p)
    /\ UNCHANGED localVars

\* the enemy's turn up to its loop: receiveShotCount
ReceiveShotCount(p) ==
    /\ RemoteRunning(p)
    /\ net.peer[p].at = "recvCount"
    /\ \/ /\ CanRecv(net, p)
          /\ LET count == Head(net.chan[p]).a IN
             net' = [net EXCEPT !.chan[p] = Tail(@),
                                !.peer[p].enemyShotsCount = count,
                                !.peer[p].g.i = 0,
                                !.peer[p].g.playerTurn = (count <= 0),
                                !.peer[p].at =
                                   IF count <= 0 THEN "select" ELSE "recvShot"]
       \/ /\ RecvFails(net, p)
          /\ net' = ConnectionLost(net, p)
    /\ UNCHANGED localVars

\* endEnemyVolley leaving the turn with the enemy
endEnemyVolley_keepTurn(n, p) ==
    [n EXCEPT !.peer[p].g.i = 0, !.peer[p].at = "select"]

\* the enemy's turn after its loop, when the game goes on: "Switch back to
\* player turn"
endEnemyVolley(n, p) ==
    [n EXCEPT !.peer[p].g.playerTurn = TRUE,
              !.peer[p].g.i = 0,
              !.peer[p].at = "select"]

\* an iteration of the enemy's loop: receiveShot, the shot on the peer's
\* board, sendShotResult (whose return value is not looked at), the
\* counters, and what follows the loop when the iteration is its last
ReceiveShot(p) ==
    /\ net.peer[p].g.status = "running"
    /\ net.peer[p].at = "recvShot"
    /\ \/ /\ CanRecv(net, p)
          /\ LET me == net.peer[p]
                 m == Head(net.chan[p])
                 r == receiveShot(me.board, m.a, m.b)
                 g == EnemyShotUpdate(me.g, r.ret)
                 isLast == me.g.i + 1 >= me.enemyShotsCount
                 n == [Sent([net EXCEPT !.chan[p] = Tail(@)], p, TRUE,
                            Msg("result", responseChar(r.ret), 0))
                         EXCEPT !.peer[p].board = r.board,
                                !.peer[p].g = g]
             IN net' =
                  IF fleetDestroyed(g.playerShipsRemaining, isLast)
                  THEN Return(n, p, "lost")
                  ELSE IF isLast
                  THEN endEnemyVolley(n, p)
                  ELSE [n EXCEPT !.peer[p].g.i = @ + 1]
       \/ /\ RecvFails(net, p)
          /\ net' = endEnemyVolley(net, p)
    /\ UNCHANGED localVars

\* the connection breaks: what was in flight is lost
LinkDown ==
    /\ net.up
    /\ \E p \in Peers : net.peer[p].g.status \in {"settings", "running"}
    /\ net' = [net EXCEPT !.up = FALSE, !.chan = [p \in Peers |-> << >>]]
    /\ UNCHANGED localVars

NextRemote ==
    \/ HostSettings
    \/ ClientSettings
    \/ \E p \in Peers : \E c \in RemoteTargets(p, BoardSize) :
          RemoteSelect(p, c[1], c[2])
    \/ \E p \in Peers : RemoteFire(p)
    \/ \E p \in Peers : RemoteQuit(p)
    \/ \E p \in Peers : SendShotCount(p)
    \/ \E p \in Peers : SendShot(p)
    \/ \E p \in Peers : ReceiveShotResult(p)
    \/ \E p \in Peers : ReceiveShotCount(p)
    \/ \E p \in Peers : ReceiveShot(p)
    \/ LinkDown

SpecRemote == InitRemote /\ [][NextRemote]_vars


(***************************************************************************)
(* Properties of the remote game, checked under SpecRemote.                *)
(***************************************************************************)
\* the messages of type t in a channel
CountOf(ch, t) == Cardinality({ k \in 1..Len(ch) : ch[k].t = t })

\* what a peer waiting in a recv expects to read
Expected(at) ==
    IF at = "settings" THEN "settings"
    ELSE IF at = "recvCount" THEN "count"
    ELSE IF at = "recvShot" THEN "shot"
    ELSE IF at = "recvResult" THEN "result"
    ELSE "none"

\* C23: each salvo is a request/response exchange.  What a peer reads is
\* what it waits for (the count before the coordinates, one outcome after
\* each coordinate); an attacker has at most one coordinate pair without
\* its outcome, and only while it waits for that outcome; the defender
\* runs its loop for the count the attacker sent and has answered as many
\* coordinates as the attacker has outcomes, one more while an outcome is
\* on its way; and the step in which
\* the defender takes a coordinate pair off the connection sends back
\* exactly one byte, the one of m, h, s that stands for the result of
\* receiveShot on its board.
C23_RequestResponse ==
    /\ [](\A p \in Peers :
            /\ (net.chan[p] # << >> /\ Expected(net.peer[p].at) # "none")
                 => Head(net.chan[p]).t = Expected(net.peer[p].at)
            /\ CountOf(net.chan[Other(p)], "shot")
                 + CountOf(net.chan[p], "result") <= 1
            /\ (CountOf(net.chan[Other(p)], "shot")
                 + CountOf(net.chan[p], "result") = 1)
                 => net.peer[p].at = "recvResult"
            /\ \A k \in 1..Len(net.chan[p]) :
                 net.chan[p][k].t = "result" => net.chan[p][k].a \in {"m", "h", "s"}
            /\ ( /\ net.peer[p].at = "recvShot"
                 /\ net.peer[p].g.status = "running"
                 /\ net.peer[Other(p)].g.status = "running"
                 /\ net.up )
                 => /\ net.peer[Other(p)].at \in {"sendShot", "recvResult"}
                    /\ net.peer[p].enemyShotsCount
                         = Len(net.peer[Other(p)].g.playerShots)
                    /\ net.peer[p].g.i = net.peer[Other(p)].g.i
                         + CountOf(net.chan[Other(p)], "result"))
    /\ [][ \A p \in Peers :
             ( /\ net.chan[p] # << >>
               /\ Head(net.chan[p]).t = "shot"
               /\ net.chan'[p] = Tail(net.chan[p])
               /\ net.peer'[p] # net.peer[p] )
             => LET m == Head(net.chan[p])
                    r == receiveShot(net.peer[p].board, m.a, m.b)
                    byte == IF r.ret = 0 THEN "m"
                            ELSE IF r.ret = 1 THEN "h" ELSE "s"
                IN /\ net.peer'[p].board = r.board
                   /\ net.chan'[Other(p)] =
                        Append(net.chan[Other(p)], Msg("result", byte, 0)) ]_vars

\* an attacker is about to send the second coordinate pair of a salvo and
\* has the outcome of the first, a hit, in its fog view
C23_Witness ==
    \E p \in Peers :
      /\ net.peer[p].g.status = "running"
      /\ net.peer[p].at = "sendShot"
      /\ net.peer[p].g.i = 1
      /\ net.up
      /\ LET first == net.peer[p].g.playerShots[1] IN
         net.peer[p].g.enemyKnownBoard[<< first[2], first[1] >>] = "h"


\* the peer is inside a recv() that returns a failure
FailedRecv(p) ==
    /\ net.peer[p].g.status \in {"settings", "running"}
    /\ Expected(net.peer[p].at) # "none"
    /\ (net.peer[p].at = "settings") => (p = "client")
    /\ RecvFails(net, p)

\* C24: a step in which a recv of a peer fails (for the settings, a shot
\* count, a coordinate pair or an outcome byte) is that peer's return from
\* the game with the connection lost, and a peer that has returned so
\* takes no further step.
C24_FailureEndsSession ==
    [][ \A p \in Peers :
          /\ (FailedRecv(p) /\ net.peer'[p] # net.peer[p])
               => net.peer'[p].g.status = "error"
          /\ (net.peer[p].g.status = "error")
               => net.peer'[p] = net.peer[p] ]_vars


\* the peer's game loop runs its player's turn, and its firing phase
OnTurn(p) == net.peer[p].g.status = "running" /\ net.peer[p].g.playerTurn

Firing(p) == OnTurn(p) /\ ~net.peer[p].g.selectingMode

\* a step in which receiveShot changes the board of peer p
BoardShot(p) ==
    /\ net.peer[p].g.status = "running"
    /\ net.peer'[p].board # net.peer[p].board

\* the steps that change a board: peer p's board changes only in p's
\* enemy turn, while the other peer is in its firing phase
BoardsSerialized ==
    [][ \A p \in Peers :
          BoardShot(p) => (~net.peer[p].g.playerTurn /\ Firing(Other(p))) ]_vars

AwaitsLastOutcome(p) ==
    /\ net.peer[p].at = "recvResult"
    /\ net.peer[p].g.i + 1 = Len(net.peer[p].g.playerShots)
    /\ CountOf(net.chan[p], "result") = 1

C26_FogOfWar ==
    \A p \in Peers :
      (net.peer[p].g.enemyKnownBoard # << >>) =>
        \A rc \in Cells(net.peer[p].board.boardSize) :
          LET seen == net.peer[p].g.enemyKnownBoard[rc]
              real == net.peer[Other(p)].board.boardArray[rc]
          IN /\ seen \in {" ", "m", "h", "s"}
             /\ (seen # " ") => Resolved(real)
             /\ (seen = "m") => (real = "o")
             /\ (real \in Letters) => (seen = " ")

\* a peer has sunk a ship of the other peer, whose board still has a ship
\* cell that was never shot
C26_Witness ==
    \E p \in Peers :
      /\ net.peer[p].g.status = "running"
      /\ \E rc \in Cells(net.peer[p].board.boardSize) :
           net.peer[p].g.enemyKnownBoard[rc] = "s"
      /\ \E rc \in Cells(net.peer[p].board.boardSize) :
           /\ net.peer[Other(p)].board.boardArray[rc] \in Letters
           /\ net.peer[p].g.enemyKnownBoard[rc] = " "


(***************************************************************************)
(* The cells of the ship at a cell.                                        *)
(***************************************************************************)
\* what getShipOccupiedCells(x, y) returns, as a set of cells <<row, column>>
QueriedCells(b, x, y) ==
    LET cells == getShipOccupiedCells(b, x, y)
    IN { <<cells[j][2], cells[j][1]>> : j \in 1..Len(cells) }

\* the query at every cell of every ship of the list returns length cells,
\* the cells of that ship
RegisteredShipQueries(b) ==
    \A k \in 1..Len(b.myShips) : \A rc \in ShipCells(b.myShips[k]) :
        /\ Len(getShipOccupiedCells(b, rc[2], rc[1])) = b.myShips[k].length
        /\ QueriedCells(b, rc[2], rc[1]) = ShipCells(b.myShips[k])
        /\ Cardinality(QueriedCells(b, rc[2], rc[1])) = b.myShips[k].length

\* the query at a cell outside the grid or at a cell of water returns nothing
NoShipQueries(b) ==
    \A x \in Coords(b.boardSize), y \in Coords(b.boardSize) :
        (~InGrid(b.boardSize, y, x) \/ b.boardArray[<<y, x>>] \in {"w", "o"})
            => getShipOccupiedCells(b, x, y) = << >>

\* C27: for every ship added to the board, by generateBoardPlacement or by
\* a placeShip that returned true, the query at any of its cells returns
\* exactly length cells, the cells of that ship, whichever of its cells is
\* asked; at a cell on no ship the query returns nothing.
C27_ShipOccupiedCells ==
    (pc # "new" /\ ~ub) =>
      /\ RegisteredShipQueries(board)
      /\ NoShipQueries(board)
      /\ (last.op = "place" /\ last.ok) =>
           \A rc \in PlaceCells(last.x, last.y, last.o, last.len) :
              /\ Len(getShipOccupiedCells(board, rc[2], rc[1])) = last.len
              /\ QueriedCells(board, rc[2], rc[1]) =
                   PlaceCells(last.x, last.y, last.o, last.len)


(***************************************************************************)
(* The board size setting (src/ui/ui_config.cpp, src/main.cpp,             *)
(* UIRenderer::selectBoardSize) and the boards the game modes create with  *)
(* it.  config.boards holds the BoardData objects a mode function has      *)
(* constructed, as constructed.  The size the client reads from the socket *)
(* is an int the other side wrote: any value of WireSizes.                 *)
(***************************************************************************)
\* largest board size offered on the wire
MaxWireSize == 27

\* the board sizes receiveGameSettings can deliver
WireSizes == 0..MaxWireSize

\* setBoardSize: the value it stores in BOARD_SIZE
setBoardSize(size) == Max({MIN_BOARD_SIZE, Min({MAX_BOARD_SIZE, size})})

\* getBoardSize
getBoardSize == config.BOARD_SIZE

\* everything but config: the state of the games themselves
playVars == << pc, board, pieces, gen_i, starting_peg, orientation, attempts,
               shipToPlace, shotCount, last, ub, game, ai, calls, net >>

\* main() up to its menu loop
InitSettings ==
    /\ pc = "new"
    /\ board = NewBoard(BoardSize)
    /\ pieces = << >>
    /\ gen_i = 0
    /\ starting_peg = 0 - 1
    /\ orientation = 1
    /\ attempts = 0
    /\ shipToPlace = 0
    /\ shotCount = 0
    /\ last = NoCall(NewBoard(BoardSize))
    /\ ub = FALSE
    /\ game = NoGame
    /\ ai = NoAI
    /\ calls = NoCalls
    /\ net = NoNet
    /\ config = [BOARD_SIZE |-> setBoardSize(10), mode |-> "menu",
                 currentSize |-> 0, boards |-> << >>]

\* MODE_BOARD_SIZE_SETTINGS: selectBoardSize starts from the current size
OpenBoardSizeMenu ==
    /\ config.mode = "menu"
    /\ config' = [config EXCEPT !.mode = "size", !.currentSize = getBoardSize]
    /\ UNCHANGED playVars

\* KEY_UP, KEY_RIGHT, w, d
SizeUp ==
    /\ config.mode = "size"
    /\ config.currentSize < MAX_BOARD_SIZE
    /\ config' = [config EXCEPT !.currentSize = @ + 1]
    /\ UNCHANGED playVars

\* KEY_DOWN, KEY_LEFT, s, a
SizeDown ==
    /\ config.mode = "size"
    /\ config.currentSize > MIN_BOARD_SIZE
    /\ config' = [config EXCEPT !.currentSize = @ - 1]
    /\ UNCHANGED playVars

\* Enter or space, on a terminal the interface fits in
ConfirmSize ==
    /\ config.mode = "size"
    /\ config' = [config EXCEPT !.BOARD_SIZE = setBoardSize(config.currentSize),
                                !.mode = "menu", !.currentSize = 0]
    /\ UNCHANGED playVars

\* ESC or q
CancelSize ==
    /\ config.mode = "size"
    /\ config' = [config EXCEPT !.mode = "menu", !.currentSize = 0]
    /\ UNCHANGED playVars

\* playAIGame: the AILogic's aiBoard and the playerBoard
PlayAI ==
    /\ config.mode = "menu"
    /\ LET size == getBoardSize IN
         config' = [config EXCEPT !.mode = "ai",
                                  !.boards = << NewBoard(size), NewBoard(size) >>]
    /\ UNCHANGED playVars

\* playMultiplayerHost: playerBoard and enemyBoard
PlayHost ==
    /\ config.mode = "menu"
    /\ LET size == getBoardSize IN
         config' = [config EXCEPT !.mode = "host",
                                  !.boards = << NewBoard(size), NewBoard(size) >>]
    /\ UNCHANGED playVars

\* playMultiplayerClient once receiveGameSettings has delivered size:
\* setBoardSize(size), then playerBoard(size) and enemyBoard(size)
PlayClient(size) ==
    /\ config.mode = "menu"
    /\ config' = [config EXCEPT !.BOARD_SIZE = setBoardSize(size),
                                !.mode = "client",
                                !.boards = << NewBoard(size), NewBoard(size) >>]
    /\ UNCHANGED playVars

\* the mode function returns to the menu loop of main()
EndGame ==
    /\ config.mode \in {"ai", "host", "client"}
    /\ config' = [config EXCEPT !.mode = "menu", !.boards = << >>]
    /\ UNCHANGED playVars

NextSettings ==
    \/ OpenBoardSizeMenu
    \/ SizeUp
    \/ SizeDown
    \/ ConfirmSize
    \/ CancelSize
    \/ PlayAI
    \/ PlayHost
    \/ \E size \in WireSizes : PlayClient(size)
    \/ EndGame

SpecSettings == InitSettings /\ [][NextSettings]_vars

\* C28: a board size outside [10,26], chosen locally or received by the
\* client in the handshake, is clamped into [10,26] and the game goes on
\* with it: BOARD_SIZE is in [10,26] and so is the size of every board a
\* game mode has created.
C28_SizeClamped ==
    /\ config.BOARD_SIZE \in MIN_BOARD_SIZE..MAX_BOARD_SIZE
    /\ \A k \in 1..Len(config.boards) :
          config.boards[k].boardSize \in MIN_BOARD_SIZE..MAX_BOARD_SIZE


\* C29: the catalog is monotone in the board size.  For the size b of the
\* board and every smaller size a of the catalog, the number of ships of
\* each length, the number of ship cells and the salvo size for b are at
\* least those for a, and the number of ships for b is larger.
C29_CatalogMonotone ==
    LET b == board.boardSize IN
    \A a \in MIN_BOARD_SIZE..MAX_BOARD_SIZE :
       (a < b) =>
          /\ getShipConfig(a).fourDeck <= getShipConfig(b).fourDeck
          /\ getShipConfig(a).threeDeck <= getShipConfig(b).threeDeck
          /\ getShipConfig(a).twoDeck <= getShipConfig(b).twoDeck
          /\ getShipConfig(a).oneDeck <= getShipConfig(b).oneDeck
          /\ getShipConfig(a).shotsPerTurn <= getShipConfig(b).shotsPerTurn
          /\ getTotalShipCells(a) <= getTotalShipCells(b)
          /\ getTotalShips(a) < getTotalShips(b)

\* the fleet of the largest board of the catalog has been created and
\* placed: every smaller size is compared with it
C29_Witness ==
    /\ board.boardSize = MAX_BOARD_SIZE
    /\ pc = "review"
    /\ Len(board.myShips) = getTotalShips(MAX_BOARD_SIZE)
    /\ Len(pieces) > getTotalShips(MAX_BOARD_SIZE - 1)


\* C30: receiveShot leaves the ship list as long as it was and every
\* ship's id, symbol, length, origin and orientation as they were, lowers
\* no ship's hitCount and leaves every sunk ship sunk.
C30_ShotKeepsShips ==
    LastShot =>
      /\ Len(board.myShips) = Len(last.pre.myShips)
      /\ \A k \in 1..Len(last.pre.myShips) :
            LET was == last.pre.myShips[k]
                is == board.myShips[k]
            IN /\ is.id = was.id
               /\ is.symbol = was.symbol
               /\ is.length = was.length
               /\ is.startRow = was.startRow
               /\ is.startCol = was.startCol
               /\ is.orientation = was.orientation
               /\ is.hitCount >= was.hitCount
               /\ was.isSunk => is.isSunk

\* a shot has sunk a ship of a board on which another ship was sunk before
C30_Witness ==
    /\ LastShot
    /\ last.ret = 2
    /\ \E k \in 1..Len(last.pre.myShips) : last.pre.myShips[k].isSunk
    /\ \E k \in 1..Len(board.myShips) :
          board.myShips[k].isSunk /\ ~last.pre.myShips[k].isSunk


\* C31: a placeShip that returned true has written the piece's symbol to
\* exactly the length cells left of the origin (horizontal) or above it
\* (vertical), the origin included, and to no other cell of the grid.
C31_PlaceWrites ==
    (last.op = "place" /\ last.ok) =>
      LET cells == PlaceCells(last.x, last.y, last.o, last.len)
          symbol == pieces[shipToPlace].symbol
      IN /\ cells \subseteq Cells(board.boardSize)
         /\ Cardinality(cells) = last.len
         /\ \A rc \in Cells(board.boardSize) :
               board.boardArray[rc] =
                  IF rc \in cells THEN symbol ELSE last.pre.boardArray[rc]


(***************************************************************************)
(* The pools of the AI.                                                    *)
(***************************************************************************)
\* the cells held by a pool
Pool(s) == { s[k] : k \in 1..Len(s) }

\* the last call added no cell to the pool and left no cell in it twice
PoolShrunk(now, before) ==
    /\ Pool(now) \subseteq Pool(before)
    /\ Len(now) <= Len(before)
    /\ Cardinality(Pool(now)) = Len(now)

\* the pools after a call of pickAttackCoordinates or recordShotResult
\* hold no cell they did not hold before it
NoCellAdded ==
    (LastPick \/ LastRecord) =>
       /\ PoolShrunk(ai.availableShots, last.pre.availableShots)
       /\ PoolShrunk(ai.parityShots, last.pre.parityShots)

\* the cell a pick returned was in availableShots and is no longer
PickLeavesUntried ==
    (LastPick /\ << last.x, last.y >> # NoShot) =>
       /\ << last.x, last.y >> \in Pool(last.pre.availableShots)
       /\ << last.x, last.y >> \notin Pool(ai.availableShots)

\* C32 as claimed: parityShots is a subset of availableShots, no call adds
\* a cell to either, a pick removes the cell it returns from both, and
\* after N*N picks both are empty.
C32_PoolsShrink ==
    /\ Pool(ai.parityShots) \subseteq Pool(ai.availableShots)
    /\ NoCellAdded
    /\ PickLeavesUntried
    /\ (LastPick /\ << last.x, last.y >> # NoShot) =>
          << last.x, last.y >> \notin Pool(ai.parityShots)
    /\ (calls.picks >= ai.boardSize * ai.boardSize) =>
          ai.availableShots = << >> /\ ai.parityShots = << >>

\* C32 as the code has it: no call adds a cell to either pool and a pick
\* removes the cell it returns from availableShots, which is empty after
\* N*N picks.  For the Smart AI parityShots is moreover a subset of
\* availableShots, a pick removes its cell from both, and after N*N picks
\* both are empty.  The Easy AI leaves parityShots as it was built.
C32_PoolsShrinkByTier ==
    /\ NoCellAdded
    /\ PickLeavesUntried
    /\ (calls.picks >= ai.boardSize * ai.boardSize) => ai.availableShots = << >>
    /\ (ai.difficulty = "SMART") =>
          /\ Pool(ai.parityShots) \subseteq Pool(ai.availableShots)
          /\ (LastPick /\ << last.x, last.y >> # NoShot) =>
                << last.x, last.y >> \notin Pool(ai.parityShots)
          /\ (calls.picks >= ai.boardSize * ai.boardSize) =>
                ai.parityShots = << >>
    /\ (ai.difficulty = "EASY" /\ (LastPick \/ LastRecord)) =>
          ai.parityShots = last.pre.parityShots

\* a Smart AI has made its N*N-th pick, with outcomes recorded in between,
\* and the pick before it still found a cell in the parity pool
C32_Witness ==
    /\ ai.difficulty = "SMART"
    /\ LastPick
    /\ calls.picks = ai.boardSize * ai.boardSize
    /\ calls.records > 0
    /\ last.pre.availableShots # << >>
    /\ ai.availableShots = << >>
    /\ ai.parityShots = << >>


\* both peers have entered their game loops
BothStarted == \A p \in Peers : net.peer[p].g.status \in {"running", "won", "lost"}

\* no send or receive has failed and nobody has quit: the connection is
\* up, or it was closed by a peer whose game loop ended with the game
NoFailure ==
    /\ \A p \in Peers : net.peer[p].g.status \notin {"error", "quit"}
    /\ net.up \/ \E p \in Peers : net.peer[p].g.status \in {"won", "lost"}

\* the outcomes "s" on their way to peer p
SunkInFlight(p) ==
    Cardinality({ k \in 1..Len(net.chan[p]) :
                    net.chan[p][k].t = "result" /\ net.chan[p][k].a = "s" })

\* peer p is blocked in a recv with nothing to read
Waiting(p) ==
    /\ net.peer[p].g.status \in {"settings", "running"}
    /\ Expected(net.peer[p].at) # "none"
    /\ (net.peer[p].at = "settings") => (p = "client")
    /\ net.chan[p] = << >>

\* the message peer p sends next without reading anything first, "none"
\* when it has left the game or has to read first
SendsNext(p) ==
    IF net.peer[p].g.status = "settings" /\ p = "host" THEN "settings"
    ELSE IF net.peer[p].g.status # "running" THEN "none"
    ELSE IF net.peer[p].at \in {"select", "sendCount"} THEN "count"
    ELSE IF net.peer[p].at = "sendShot" THEN "shot"
    ELSE "none"

\* C33: in a remote game without failures each peer's count of the other
\* peer's ships is the other peer's count of its own ships, plus the
\* sinkings whose outcome is still on its way; a peer has won exactly when
\* the other has lost or its last outcome is on its way; and a peer
\* blocked in a recv with nothing to read waits for what the other peer
\* sends next.
C33_CountsAgree ==
    (NoFailure /\ BothStarted) =>
      \A p \in Peers :
        LET q == Other(p) IN
        /\ net.peer[p].g.enemyShipsRemaining
             = net.peer[q].g.playerShipsRemaining + SunkInFlight(p)
        /\ (net.peer[p].g.status = "won") => (net.peer[q].g.status = "lost")
        /\ (net.peer[q].g.status = "lost") =>
              \/ net.peer[p].g.status = "won"
              \/ /\ net.peer[p].g.status = "running"
                 /\ net.peer[p].at = "recvResult"
                 /\ SunkInFlight(p) = 1
        /\ Waiting(p) => SendsNext(q) = Expected(net.peer[p].at)
           \/ ( /\ net.peer[q].g.status = "running"
                /\ net.chan[q] # << >>
                /\ Expected(net.peer[q].at) = Head(net.chan[q]).t )

\* the game has ended for both peers in the middle of a salvo: the winner
\* had selected more shots than it fired
C33_Witness ==
    /\ NoFailure
    /\ \E p \in Peers :
         /\ net.peer[p].g.status = "won"
         /\ net.peer[Other(p)].g.status = "lost"
         /\ net.peer[p].g.i + 1 < Len(net.peer[p].g.playerShots)
         /\ net.peer[Other(p)].g.i + 1 < net.peer[Other(p)].enemyShotsCount


\* the cells that show sunk in a grid
SunkCells(grid) == { rc \in DOMAIN grid : grid[rc] = "s" }

\* C34: in a remote game the cells a peer's fog view shows sunk are cells
\* of ships sunk on the other peer's board, all of them once no outcome is
\* on its way; a cell the view shows hit is a hit cell of a ship afloat
\* there, unless the outcome that sinks its ship is still on its way (or
\* was lost with the connection).
C34_SunkMarking ==
    \A p \in Peers :
      (BothStarted /\ net.peer[p].g.enemyKnownBoard # << >>) =>
        LET fog == net.peer[p].g.enemyKnownBoard
            real == net.peer[Other(p)].board.boardArray
        IN /\ SunkCells(fog) \subseteq SunkCells(real)
           /\ (SunkInFlight(p) = 0 /\ NoFailure) => SunkCells(fog) = SunkCells(real)
           /\ \A rc \in DOMAIN fog :
                 (fog[rc] = "h" /\ SunkInFlight(p) = 0 /\ NoFailure)
                    => real[rc] = "x"


\* C35: a shot changes a cell of the grid only from water to miss, from a
\* ship's symbol to hit or sunk, or from hit to sunk; a hit cell becomes
\* sunk only in the shot that sinks the ship lying over it, and a cell
\* becomes sunk only then; miss and sunk cells stay as they are.
C35_CellTransitions ==
    LastShot =>
      \A rc \in Cells(board.boardSize) :
        LET was == last.pre.boardArray[rc]
            is == board.boardArray[rc]
            sinks(k) == /\ isHit(last.pre.myShips[k], rc[2], rc[1])
                        /\ ~last.pre.myShips[k].isSunk
                        /\ board.myShips[k].isSunk
        IN /\ \/ is = was
              \/ was = "w" /\ is = "o"
              \/ was \in Letters /\ is \in {"x", "s"}
              \/ was = "x" /\ is = "s"
           /\ (is = "s" /\ was # "s") =>
                 /\ last.ret = 2
                 /\ \E k \in 1..Len(last.pre.myShips) : sinks(k)

\* the shot has sunk a ship: a cell hit before has become sunk, while a
\* miss made before and a ship sunk before are as they were
C35_Witness ==
    /\ LastShot
    /\ last.ret = 2
    /\ \E rc \in Cells(board.boardSize) :
          last.pre.boardArray[rc] = "x" /\ board.boardArray[rc] = "s"
    /\ \E rc \in Cells(board.boardSize) :
          last.pre.boardArray[rc] \in {"o", "s"}


\* the cells of the grid of b that hold one of the values of vs
CellsIn(b, vs) == { rc \in Cells(b.boardSize) : b.boardArray[rc] \in vs }

\* every ship on the grid of b was put there by addShip
PopulatedByAddShip(b) ==
    /\ b.myShips # << >>
    /\ \A rc \in Cells(b.boardSize) :
          b.boardArray[rc] \in Letters => Covering(b, rc[1], rc[2]) # {}

\* C36: on a board whose ships were all added by addShip, after any shots,
\* each ship's hitCount is the number of its cells that are hit or sunk,
\* its cells are sunk exactly when it is sunk, getWoundedCount() is the
\* number of hit cells of the grid and missCount the number of miss cells.
C36_GridMatchesShips ==
    (pc = "play" /\ PopulatedByAddShip(board)) =>
      /\ \A k \in 1..Len(board.myShips) :
           LET ship == board.myShips[k] IN
           /\ ship.hitCount =
                Cardinality(ShipCells(ship) \cap CellsIn(board, {"x", "s"}))
           /\ ship.isSunk <=> (ShipCells(ship) \subseteq CellsIn(board, {"s"}))
           /\ ship.isSunk <=> (ShipCells(ship) \cap CellsIn(board, {"s"}) # {})
      /\ getWoundedCount(board) = Cardinality(CellsIn(board, {"x"}))
      /\ board.missCount = Cardinality(CellsIn(board, {"o"}))

\* a generated board after shots: a miss, a ship hit but afloat and a
\* ship sunk
C36_Witness ==
    /\ pc = "play"
    /\ PopulatedByAddShip(board)
    /\ board.missCount > 0
    /\ getWoundedCount(board) > 0
    /\ getSunkCount(board) > 0


\* C37: right after a Smart AI has recorded a sinking hit on a cell of the
\* grid, hunting is false and lastHit is (-1, -1).
C37_SunkClearsHunting ==
    ( /\ LastRecord
      /\ last.ret = 2
      /\ InGrid(ai.boardSize, last.y, last.x)
      /\ ai.difficulty = "SMART" )
    => (~ai.hunting /\ ai.lastHit = NoShot)

====
